---- MODULE Spec2Model ----
(***************************************************************************)
(* LogSplitter telemetry pipeline.                                         *)
(*                                                                         *)
(*   Spec          the LCARS documentation server: the TelemetryDecoder    *)
(*                 thread (scan, log to SQLite, publish to the ring) and   *)
(*                 the /api/telemetry/stream subscribers                   *)
(*                 (src/lcars_docs_server.py)                              *)
(*   SpecDatabase  ProtobufDatabase driven by an arbitrary caller          *)
(*                 (src/lcars_protobuf_decoder.py)                         *)
(*   SpecDecoder   main() of the command-line decoder: connect,            *)
(*                 process_stream, print_summary, close                    *)
(*                 (src/lcars_protobuf_decoder.py)                         *)
(***************************************************************************)
EXTENDS Integers, Sequences, FiniteSets, TLC

(***************************************************************************)
(* Bounds of the model.                                                    *)
(***************************************************************************)
\* capacity of the ring, deque(maxlen=...); the source sets 50
MAXLEN == 3
\* frames the scanner emits before the transport goes quiet
MaxFrames == 5
\* bytes read from the transport in one chunk
MaxChunk == 2

\* raw_messages rows written to one database file
MaxMessages == 3
\* largest value time.time() takes
MaxTime == 1

\* SQL NULL; a value v of a nullable column is <<v>>
NULL == <<>>
Subs == {"s1", "s2"}
\* session ids, f"session_{int(time.time())}", in the order the runs start
SessionIds == {1, 2}
\* the sessions row key of the server's TelemetryDecoder
ServerSession == "session_srv"

\* the message-type markers, 0x10 <= byte <= 0x17
TAG_LO == 16
TAG_HI == 23
\* on the server's wire: one noise byte and one valid tag (0x12, "Pressure")
ServerBytes == {1, 18}
\* on the command-line decoder's wire: noise, 0x12 "Pressure", 0x17 "Heartbeat"
DecoderBytes == {1, 18, 23}
\* types handed to ProtobufDatabase.log_message: 0x12 and the unnamed 0x20
MsgTypes == {18, 32}

VARIABLES
    \* ---- TelemetryDecoder thread (lcars_docs_server.py)
    tpc,              \* position of run(): start, open, loop, db, lock, stopped
    pending,          \* frames found in the current chunk, not yet logged
    scanned,          \* number of frames the scanner has emitted
    serial_conn,      \* self.serial_conn: "none", "open", "closed"
    srv_session,      \* the sessions table of the server's database
    srv_raw,          \* committed raw_messages rows of this run, in id order
    db_failed,        \* frames whose database write in log_message raised
    \* ---- telemetry_state, telemetry_lock
    connected,
    latest_messages,
    total_messages,
    telemetry_lock,   \* "free" or the subscriber whose generator holds it
    \* ---- event_stream generators, one per subscriber
    spc,              \* off, sleep, yield, closed
    last_seen_index,
    messages,         \* the list copied from the ring, while inside the with block
    pos,              \* index in messages of the frame being yielded
    delivered,        \* frames yielded so far
    subscribedAt,     \* total_messages when the generator started
    polledAt,         \* total_messages at the latest poll
    polls,            \* polls that found new frames: 0, 1, or 2 for more
    maxLag,           \* most frames published between two polls, capped at MAXLEN + 1
    \* ---- ProtobufDatabase (lcars_protobuf_decoder.py)
    db,               \* the tables as the connection sees them
    disk,             \* the tables as committed to the file
    dbpc,             \* position inside log_message: idle, inserted, updated, upserted
    call,             \* arguments of the log_message call in progress
    now,              \* time.time()
    aborted,          \* sessions with a log_message call that raised
    \* ---- LCARSProtobufDecoder and main() (lcars_protobuf_decoder.py)
    mpc,              \* position of main(): off, created, loop, ending, finally, done, failed
    dec_serial,       \* self.serial_conn: "none", "open", "closed"
    dec_pending,      \* frames found in the current chunk, not yet logged
    exit_by,          \* how the loop was left: NULL, <<"duration">>, ...
    ret,              \* exit status of main(), NULL while running
    \* ---- the scan of one chunk, taken on its own
    scan_chunk,       \* chunk: the bytes returned by one serial read
    scan_frames,      \* the (type, context) pairs handed to log_message, in order
    scan_pc,          \* off, read, done
    \* ---- EnhancedTelemetryReceiver (meshtastic_telemetry_receiver.py)
    ser,              \* self.ser: "none", "open", "closed"
    last_sequence_id, \* NULL (None) or <<byte>>
    message,          \* what the latest decode_binary_message returned, NULL for None
    gap_events,       \* the "Sequence gap" reports of the latest call
    rx_call,          \* the latest call: its data, the sequence byte of the frame
                      \* decoded before it, whether it is the session's first frame
    rx_prev,          \* sequence byte of the latest decoded frame, NULL if none
    rx_seen,          \* a frame was decoded since the latest connect()
    rx_count,         \* calls of decode_binary_message so far
    rx_connects,      \* successful connect() calls so far
    rx_consecutive,   \* every decoded frame so far followed its predecessor mod 256
    rx_gap_total,     \* gap reports so far
    \* ---- LogSplitterProtocol (logsplitter_meshtastic_protocol.py) and
    \*      TelemetryPacket (meshtastic_bridge.py)
    pr_pc,            \* off, new, encoded, decoded
    pr_input,         \* the header or packet fields and the payload to encode
    pr_wire,          \* the bytes on the way to the decoder
    pr_made_by,       \* to_bytes, create_message or pack
    pr_changed,       \* what happened to the bytes on the way: none, cut, extended
    pr_read_by,       \* from_bytes, parse_message or unpack
    pr_result,         \* what the decoder returned or raised
    \* ---- NetworkMonitor.calculate_quality_score (meshtastic_bridge.py)
    q_pc,             \* off, new, done
    q_rssi,           \* rssi, dBm
    q_snr,            \* snr, in tenths of a dB
    q_score,           \* rssi_score, snr_score and their sum, in quarter points
    \* ---- MeshtasticRangeTester (meshtastic_range_test.py)
    rt_pc,            \* position of main(): off, idle, sending, joining
    rt_cycle,         \* run_test calls started so far
    rt_running,       \* self.running
    packets_sent,
    packets_received,
    total_latency,
    rt_sequence,      \* sequence: probes attempted in this run_test call
    rt_air,           \* probe lines sent and not yet read by a monitor thread
    rt_monitors,      \* the monitor threads alive, named by the cycle that started them
    rt_stats,         \* what the latest calculate_statistics returned, NULL before
    rt_failed,        \* probes of this run_test call whose send failed
    rt_sane_sum,      \* sum of the latencies that passed the sanity check since the reset
    rt_sane_count,     \* how many latencies passed it since the reset
    \* ---- /api/telemetry/latest (lcars_docs_server.py)
    api_limit,        \* the limit of the latest query, NULL before the first
    api_reply,        \* its reply: messages and count, NULL before the first
    api_ring,          \* the ring as it was under the lock of that query
    \* ---- the timestamp field of the two wire headers
    ts_pc,            \* off, ready, done
    ts_time,          \* int(time.time() * 1000), as six bytes, least significant first
    ts_by,            \* the function that stamped the message
    ts_result,         \* the packed field and what the caller got
    \* ---- MeshtasticBridge and its CommandForwarder (meshtastic_bridge.py)
    cf_pc,            \* off, or on once the bridge is started
    bridge_sequence_counter,   \* MeshtasticBridge.sequence_counter
    pending_commands, \* sequence id -> [command, old]; old: older than command_timeout
    cf_sends,         \* sequence ids issued in this run
    cf_issued,        \* commands issued so far; they are numbered 1, 2, ...
    cf_air,           \* command requests on the mesh that may still be answered
    cf_left,          \* per command: how its entry left the table
    cf_attrib,        \* per callback made: the command answered and the command named
    cl_pc,            \* the cleanup thread: sleep, iterate, pop
    cl_size,          \* the size of the table when the iteration started
    cl_todo,          \* keys the iteration has not visited yet
    cl_now_old,       \* commands older than the timeout at the cleanup's "now"
    cl_expired,       \* the expired list
    cl_error          \* what the cleanup loop caught last

srvVars == <<tpc, pending, scanned, serial_conn, srv_session, srv_raw, db_failed,
             connected, latest_messages, total_messages, telemetry_lock>>
subVars == <<spc, last_seen_index, messages, pos, delivered, subscribedAt,
             polledAt, polls, maxLag>>
dbVars == <<db, disk, dbpc, call, now, aborted>>
decVars == <<mpc, dec_serial, dec_pending, exit_by, ret>>
scanVars == <<scan_chunk, scan_frames, scan_pc>>
rxVars == <<ser, last_sequence_id, message, gap_events, rx_call, rx_prev, rx_seen,
            rx_count, rx_connects, rx_consecutive, rx_gap_total>>
protoVars == <<pr_pc, pr_input, pr_wire, pr_made_by, pr_changed, pr_read_by, pr_result>>
qVars == <<q_pc, q_rssi, q_snr, q_score>>
rtVars == <<rt_pc, rt_cycle, rt_running, packets_sent, packets_received, total_latency,
            rt_sequence, rt_air, rt_monitors, rt_stats, rt_failed, rt_sane_sum,
            rt_sane_count>>
apiVars == <<api_limit, api_reply, api_ring>>
tsVars == <<ts_pc, ts_time, ts_by, ts_result>>
cfVars == <<cf_pc, bridge_sequence_counter, pending_commands, cf_sends, cf_issued, cf_air, cf_left,
            cf_attrib, cl_pc, cl_size, cl_todo, cl_now_old, cl_expired, cl_error>>
libVars == <<scanVars, rxVars, protoVars, qVars, rtVars, apiVars, tsVars, cfVars>>
vars == <<srvVars, subVars, dbVars, decVars, libVars>>

(***************************************************************************)
(* Pure helpers.                                                           *)
(***************************************************************************)
Min(a, b) == IF a < b THEN a ELSE b
Max(a, b) == IF a > b THEN a ELSE b

\* Python s[a:b] for 0 <= a, b (0-based, end exclusive, clipped)
Slice(s, a, b) == SubSeq(s, Min(a, Len(s)) + 1, Min(b, Len(s)))

\* s[a:] taken as the whole of s
SliceFromStart(s, a) == s

\* Python s[a:] for a >= 0
SliceFrom(s, a) == Slice(s, a, Len(s))

IsPrefix(s, t) == Len(s) <= Len(t) /\ SubSeq(t, 1, Len(s)) = s

Chunks(B, n) == UNION {[1..k -> B] : k \in 1..n}

\* a marker range that leaves out 0x10
IsTagAboveLow(byte) == TAG_LO < byte /\ byte <= TAG_HI

IsTag(byte) == TAG_LO <= byte /\ byte <= TAG_HI

\* offsets (0-based) of the tag bytes of a chunk, in increasing order
RECURSIVE TagOffsets(_, _)
TagOffsets(chunk, i) ==
    IF i >= Len(chunk) THEN <<>>
    ELSE (IF IsTag(chunk[i + 1]) THEN <<i>> ELSE <<>>) \o TagOffsets(chunk, i + 1)

\* a window that also takes the byte at offset i + 15
ContextFifteenAfter(chunk, i) == Slice(chunk, Max(0, i - 5), Min(Len(chunk), i + 16))

\* the context window around offset i
Context(chunk, i) == Slice(chunk, Max(0, i - 5), Min(Len(chunk), i + 15))

\* the (type, context) pairs the scan loop hands to log_message, in order
ScanChunk(chunk) ==
    LET offs == TagOffsets(chunk, 0)
    IN  [k \in 1..Len(offs) |->
            [type |-> chunk[offs[k] + 1], context |-> Context(chunk, offs[k])]]

\* an append at the left end of the deque
DequeAppendLeft(d, x) ==
    IF Len(d) >= MAXLEN THEN <<x>> \o SubSeq(d, 1, Len(d) - 1) ELSE <<x>> \o d

\* deque(maxlen=MAXLEN).append
DequeAppend(d, x) ==
    IF Len(d) >= MAXLEN THEN Tail(d) \o <<x>> ELSE Append(d, x)

(***************************************************************************)
(* TelemetryDecoder.run and log_message.                                   *)
(***************************************************************************)
InitServer ==
    /\ tpc = "start"
    /\ pending = <<>>
    /\ scanned = 0
    /\ serial_conn = "none"
    /\ srv_session = <<>>
    /\ srv_raw = <<>>
    /\ db_failed = {}
    /\ connected = FALSE
    /\ latest_messages = <<>>
    /\ total_messages = 0
    /\ telemetry_lock = "free"

InitSubs ==
    /\ spc = [s \in Subs |-> "off"]
    /\ last_seen_index = [s \in Subs |-> 0]
    /\ messages = [s \in Subs |-> <<>>]
    /\ pos = [s \in Subs |-> 0]
    /\ delivered = [s \in Subs |-> <<>>]
    /\ subscribedAt = [s \in Subs |-> 0]
    /\ polledAt = [s \in Subs |-> 0]
    /\ polls = [s \in Subs |-> 0]
    /\ maxLag = [s \in Subs |-> 0]

\* the finally clause of run(): close what was opened, connected = False
RunFinally ==
    /\ tpc' = "stopped"
    /\ pending' = <<>>
    /\ serial_conn' = IF serial_conn = "open" THEN "closed" ELSE serial_conn
    /\ connected' = FALSE

\* the test open of the port fails: the thread returns before any session
RunPortUnavailable ==
    /\ tpc = "start"
    /\ telemetry_lock = "free"
    /\ tpc' = "stopped"
    /\ connected' = FALSE
    /\ UNCHANGED <<pending, scanned, serial_conn, srv_session, srv_raw, db_failed,
                   latest_messages, total_messages, telemetry_lock,
                   subVars, dbVars, decVars, libVars>>

\* init_database: the sessions row is inserted and committed
RunInitDatabase ==
    /\ tpc = "start"
    /\ tpc' = "open"
    /\ srv_session' = (ServerSession :> [end_time |-> NULL, message_count |-> 0])
    /\ UNCHANGED <<pending, scanned, serial_conn, srv_raw, db_failed, connected,
                   latest_messages, total_messages, telemetry_lock,
                   subVars, dbVars, decVars, libVars>>

\* serial.Serial(...) succeeds; connected = True under the lock
RunOpenSerial ==
    /\ tpc = "open"
    /\ telemetry_lock = "free"
    /\ tpc' = "loop"
    /\ serial_conn' = "open"
    /\ connected' = TRUE
    /\ UNCHANGED <<pending, scanned, srv_session, srv_raw, db_failed,
                   latest_messages, total_messages, telemetry_lock,
                   subVars, dbVars, decVars, libVars>>

\* serial.Serial(...) raises SerialException after the session was created
RunOpenSerialFails ==
    /\ tpc = "open"
    /\ telemetry_lock = "free"
    /\ RunFinally
    /\ UNCHANGED <<scanned, srv_session, srv_raw, db_failed,
                   latest_messages, total_messages, telemetry_lock,
                   subVars, dbVars, decVars, libVars>>

\* one pass of the while loop: read what is waiting and scan it
ReadChunk ==
    /\ tpc = "loop"
    /\ \E chunk \in Chunks(ServerBytes, MaxChunk) :
         LET found == ScanChunk(chunk)
             frames == [k \in 1..Len(found) |->
                           [n |-> scanned + k, type |-> found[k].type]]
         IN  /\ scanned + Len(found) <= MaxFrames
             /\ pending' = frames
             /\ scanned' = scanned + Len(found)
             /\ tpc' = IF Len(found) > 0 THEN "db" ELSE "loop"
    /\ UNCHANGED <<serial_conn, srv_session, srv_raw, db_failed, connected,
                   latest_messages, total_messages, telemetry_lock,
                   subVars, dbVars, decVars, libVars>>

\* in_waiting or read raises SerialException: except clause, then finally
ReadFails ==
    /\ tpc = "loop"
    /\ telemetry_lock = "free"
    /\ RunFinally
    /\ UNCHANGED <<scanned, srv_session, srv_raw, db_failed,
                   latest_messages, total_messages, telemetry_lock,
                   subVars, dbVars, decVars, libVars>>

\* log_message, database part: INSERT, UPDATE message_count, commit
LogMessageDb ==
    /\ tpc = "db"
    /\ tpc' = "lock"
    /\ srv_raw' = Append(srv_raw, Head(pending))
    /\ srv_session' = [srv_session EXCEPT ![ServerSession].message_count = @ + 1]
    /\ UNCHANGED <<pending, scanned, serial_conn, db_failed, connected,
                   latest_messages, total_messages, telemetry_lock,
                   subVars, dbVars, decVars, libVars>>

\* log_message, database part raising sqlite3.Error: nothing in log_message
\* catches it, run() catches Exception and falls into finally
LogMessageDbFails ==
    /\ tpc = "db"
    /\ telemetry_lock = "free"
    /\ db_failed' = db_failed \cup {Head(pending)}
    /\ RunFinally
    /\ UNCHANGED <<scanned, srv_session, srv_raw,
                   latest_messages, total_messages, telemetry_lock,
                   subVars, dbVars, decVars, libVars>>

\* log_message, "with telemetry_lock:" append to the ring and count
LogMessagePublish ==
    /\ tpc = "lock"
    /\ telemetry_lock = "free"
    /\ latest_messages' = DequeAppend(latest_messages, Head(pending))
    /\ total_messages' = total_messages + 1
    /\ pending' = Tail(pending)
    /\ tpc' = IF Len(pending) > 1 THEN "db" ELSE "loop"
    /\ UNCHANGED <<scanned, serial_conn, srv_session, srv_raw, db_failed,
                   connected, telemetry_lock,
                   subVars, dbVars, decVars, libVars>>

(***************************************************************************)
(* telemetry_stream: the event_stream generator of one subscriber.         *)
(***************************************************************************)
\* a cursor that starts at "now"
InitialCursorNow(ring) == Len(ring)

\* the cursor a new generator starts with
InitialCursor(ring) == 0

\* the request arrives and the generator is created
Subscribe(s) ==
    /\ spc[s] = "off"
    /\ spc' = [spc EXCEPT ![s] = "sleep"]
    /\ last_seen_index' = [last_seen_index EXCEPT ![s] = InitialCursor(latest_messages)]
    /\ subscribedAt' = [subscribedAt EXCEPT ![s] = total_messages]
    /\ polledAt' = [polledAt EXCEPT ![s] = total_messages]
    /\ UNCHANGED <<srvVars, messages, pos, delivered, polls, maxLag,
                   dbVars, decVars, libVars>>

\* top of the while loop: take the lock, copy the ring, and either yield the
\* first new frame (keeping the lock while suspended) or leave the block
Poll(s) ==
    /\ spc[s] = "sleep"
    /\ telemetry_lock = "free"
    /\ LET msgs == latest_messages
           current_count == Len(msgs)
       IN  /\ polledAt' = [polledAt EXCEPT ![s] = total_messages]
           /\ maxLag' = [maxLag EXCEPT ![s] =
                             Max(@, Min(total_messages - polledAt[s], MAXLEN + 1))]
           /\ IF current_count > last_seen_index[s]
              THEN /\ telemetry_lock' = s
                   /\ messages' = [messages EXCEPT ![s] = msgs]
                   /\ spc' = [spc EXCEPT ![s] = "yield"]
                   /\ pos' = [pos EXCEPT ![s] = last_seen_index[s] + 1]
                   /\ delivered' = [delivered EXCEPT ![s] =
                          Append(@, Head(SliceFrom(msgs, last_seen_index[s])))]
                   /\ polls' = [polls EXCEPT ![s] = Min(@ + 1, 2)]
                   /\ UNCHANGED last_seen_index
              ELSE /\ UNCHANGED <<telemetry_lock, spc, messages, pos, delivered,
                                  polls, last_seen_index>>
    /\ UNCHANGED <<tpc, pending, scanned, serial_conn, srv_session, srv_raw,
                   db_failed, connected, latest_messages, total_messages,
                   subscribedAt, dbVars, decVars, libVars>>

\* the consumer takes the event: the generator resumes after the yield and
\* either yields the next frame of the slice or finishes the poll
Resume(s) ==
    /\ spc[s] = "yield"
    /\ IF pos[s] < Len(messages[s])
       THEN /\ pos' = [pos EXCEPT ![s] = @ + 1]
            /\ delivered' = [delivered EXCEPT ![s] = Append(@, messages[s][pos[s] + 1])]
            /\ UNCHANGED <<spc, last_seen_index, telemetry_lock, messages>>
       ELSE /\ last_seen_index' = [last_seen_index EXCEPT ![s] = Len(messages[s])]
            /\ telemetry_lock' = "free"
            /\ spc' = [spc EXCEPT ![s] = "sleep"]
            /\ messages' = [messages EXCEPT ![s] = <<>>]
            /\ pos' = [pos EXCEPT ![s] = 0]
            /\ UNCHANGED delivered
    /\ UNCHANGED <<tpc, pending, scanned, serial_conn, srv_session, srv_raw,
                   db_failed, connected, latest_messages, total_messages,
                   subscribedAt, polledAt, polls, maxLag, dbVars, decVars, libVars>>

\* the client goes away: the generator is closed at the yield it is suspended
\* at, which leaves the with block
Disconnect(s) ==
    /\ spc[s] = "yield"
    /\ spc' = [spc EXCEPT ![s] = "closed"]
    /\ telemetry_lock' = "free"
    /\ messages' = [messages EXCEPT ![s] = <<>>]
    /\ pos' = [pos EXCEPT ![s] = 0]
    /\ UNCHANGED <<tpc, pending, scanned, serial_conn, srv_session, srv_raw,
                   db_failed, connected, latest_messages, total_messages,
                   last_seen_index, delivered, subscribedAt,
                   polledAt, polls, maxLag, dbVars, decVars, libVars>>

(***************************************************************************)
(* ProtobufDatabase: the tables and the statements run on them.            *)
(***************************************************************************)
\* MESSAGE_TYPES.get(msg_type, f"Unknown (0x{msg_type:02X})")
TypeName(msg_type) ==
    CASE msg_type = 16 -> "Digital I/O"
      [] msg_type = 17 -> "Relays"
      [] msg_type = 18 -> "Pressure"
      [] msg_type = 19 -> "Sequence"
      [] msg_type = 20 -> "Error"
      [] msg_type = 21 -> "Safety"
      [] msg_type = 22 -> "System Status"
      [] msg_type = 23 -> "Heartbeat"
      [] OTHER -> "Unknown (0x20)"

\* the schema created by init_database, with no rows
EmptyTables == [sessions |-> <<>>, raw_messages |-> <<>>, statistics |-> <<>>]

\* INSERT INTO sessions (session_id, start_time, ...): message_count defaults
\* to 0 and end_time to NULL (start_time, port and baud_rate are never read)
InsertSession(d, session_id) ==
    [d EXCEPT !.sessions =
        @ @@ (session_id :> [end_time |-> NULL, message_count |-> 0])]

\* INSERT INTO raw_messages (...)
InsertRawMessage(d, session_id, msg_type, raw_data) ==
    [d EXCEPT !.raw_messages =
        Append(@, [session_id |-> session_id,
                   message_type |-> msg_type,
                   message_type_name |-> TypeName(msg_type),
                   size |-> Len(raw_data),
                   raw_data |-> raw_data])]

\* UPDATE sessions SET message_count = message_count + 1 WHERE session_id = ?
UpdateMessageCount(d, session_id) ==
    IF session_id \in DOMAIN d.sessions
    THEN [d EXCEPT !.sessions[session_id].message_count = @ + 1]
    ELSE d

\* an upsert that overwrites the count instead of adding to it
UpsertStatisticReplacing(d, session_id, type_name) ==
    [d EXCEPT !.statistics =
        [k \in DOMAIN @ \cup {<<session_id, type_name>>} |->
            IF k = <<session_id, type_name>> THEN 1 ELSE @[k]]]

\* INSERT INTO statistics ... VALUES (?, ?, 1)
\* ON CONFLICT(session_id, message_type) DO UPDATE SET count = count + 1
UpsertStatistic(d, session_id, type_name) ==
    LET key == <<session_id, type_name>>
    IN  IF key \in DOMAIN d.statistics
        THEN [d EXCEPT !.statistics[key] = @ + 1]
        ELSE [d EXCEPT !.statistics = @ @@ (key :> 1)]

\* UPDATE sessions SET end_time = ?, end_time_iso = ? WHERE session_id = ?
UpdateEndTime(d, session_id, t) ==
    IF session_id \in DOMAIN d.sessions
    THEN [d EXCEPT !.sessions[session_id].end_time = <<t>>]
    ELSE d

\* SELECT COUNT(*) FROM raw_messages WHERE session_id = ?
RawCount(d, session_id) ==
    Cardinality({i \in 1..Len(d.raw_messages) :
                    d.raw_messages[i].session_id = session_id})

\* SELECT COUNT(*) FROM raw_messages WHERE session_id = ? AND message_type_name = ?
RawCountOfType(d, session_id, type_name) ==
    Cardinality({i \in 1..Len(d.raw_messages) :
                    /\ d.raw_messages[i].session_id = session_id
                    /\ d.raw_messages[i].message_type_name = type_name})

\* get_session_stats, as a function of the type name (0 where there is no row)
StatCount(d, session_id, type_name) ==
    IF <<session_id, type_name>> \in DOMAIN d.statistics
    THEN d.statistics[<<session_id, type_name>>]
    ELSE 0

TypeNames == {TypeName(x) : x \in MsgTypes \cup DecoderBytes}

InitDatabase ==
    /\ db = EmptyTables
    /\ disk = EmptyTables
    /\ dbpc = "idle"
    /\ call = <<>>
    /\ now = 0
    /\ aborted = {}

\* time.time() moves on
Tick ==
    /\ now < MaxTime
    /\ now' = now + 1
    /\ UNCHANGED <<db, disk, dbpc, call, aborted>>

\* start_session: INSERT the sessions row, commit
StartSessionOn(session_id) ==
    /\ dbpc = "idle"
    /\ session_id \notin DOMAIN db.sessions
    /\ db' = InsertSession(db, session_id)
    /\ disk' = db'
    /\ UNCHANGED <<dbpc, call, now, aborted>>

\* log_message, first statement: INSERT INTO raw_messages
LogMessageInsertOn(session_id, msg_type, raw_data) ==
    /\ dbpc = "idle"
    /\ session_id \in DOMAIN db.sessions
    /\ Len(db.raw_messages) < MaxMessages
    /\ db' = InsertRawMessage(db, session_id, msg_type, raw_data)
    /\ dbpc' = "inserted"
    /\ call' = [session_id |-> session_id, msg_type |-> msg_type]
    /\ UNCHANGED <<disk, now, aborted>>

\* log_message, second statement: UPDATE sessions
LogMessageUpdate ==
    /\ dbpc = "inserted"
    /\ db' = UpdateMessageCount(db, call.session_id)
    /\ dbpc' = "updated"
    /\ UNCHANGED <<disk, call, now, aborted>>

\* log_message, third statement: the statistics upsert
LogMessageUpsert ==
    /\ dbpc = "updated"
    /\ db' = UpsertStatistic(db, call.session_id, TypeName(call.msg_type))
    /\ dbpc' = "upserted"
    /\ UNCHANGED <<disk, call, now, aborted>>

\* log_message, self.conn.commit() and return
LogMessageCommit ==
    /\ dbpc = "upserted"
    /\ disk' = db
    /\ dbpc' = "idle"
    /\ call' = <<>>
    /\ UNCHANGED <<db, now, aborted>>

\* an exception leaves log_message after some of its statements (the next
\* statement or the commit fails, or KeyboardInterrupt arrives): nothing
\* rolls back, the implicit transaction stays open on the connection
LogMessageAbort ==
    /\ dbpc \in {"inserted", "updated", "upserted"}
    /\ dbpc' = "idle"
    /\ call' = <<>>
    /\ aborted' = aborted \cup {call.session_id}
    /\ UNCHANGED <<db, disk, now>>

\* end_session: UPDATE sessions SET end_time = now, commit
EndSessionOn(session_id) ==
    /\ dbpc = "idle"
    /\ db' = UpdateEndTime(db, session_id, now)
    /\ disk' = db'
    /\ UNCHANGED <<dbpc, call, now, aborted>>

\* the connection goes away without a commit (close(), or the process dies)
\* and the file is opened again: the open transaction is rolled back
ConnectionLost ==
    /\ db' = disk
    /\ dbpc' = "idle"
    /\ call' = <<>>
    /\ UNCHANGED <<disk, now, aborted>>

\* no LCARSProtobufDecoder is running
InitDecoderOff ==
    /\ mpc = "off"
    /\ dec_serial = "none"
    /\ dec_pending = <<>>
    /\ exit_by = NULL
    /\ ret = NULL

(***************************************************************************)
(* SpecScanner: the marker scan of one chunk, as run() and process_stream  *)
(* both do it.                                                             *)
(***************************************************************************)
\* longest chunk scanned on its own
MaxScanLen == 22
\* bytes around both ends of the marker range: 0x0F, 0x10, 0x12, 0x17, 0x18
ScanBytes == {15, 16, 18, 23, 24}
\* longest chunk built from every combination of ScanBytes
MaxShort == 3

\* a chunk of len bytes, none of them a marker (byte k is k mod 16) except the
\* marker 0x12 at offset i
OneTagChunk(len, i) == [k \in 1..len |-> IF k = i + 1 THEN 18 ELSE (k - 1) % 16]

ScanInputs ==
    Chunks(ScanBytes, MaxShort)
        \cup {OneTagChunk(len, i) : len \in 1..MaxScanLen, i \in 0..(MaxScanLen - 1)}

(***************************************************************************)
(* SpecReceiver: EnhancedTelemetryReceiver, the direct-connection monitor. *)
(***************************************************************************)
\* decode_binary_message calls made on one receiver
MaxRxCalls == 3
\* connect() calls that succeed on one receiver
MaxConnects == 2
\* sequence bytes on the wire: around the wrap, and 5, 6, 7
RxSeqs == {0, 1, 5, 6, 7, 255}
\* MessageType.PRESSURE_READING and a type with no decoder
RxTypes == {19, 32}
\* [MSG_TYPE][SEQ][TIMESTAMP], and two inputs shorter than the 6-byte header
RxData ==
    {<<ty, s>> \o ts : ty \in RxTypes, s \in RxSeqs, ts \in {<<1, 0, 0, 0>>, <<0, 1, 0, 0>>}}
        \cup {<<>>, <<19, 5, 0, 0, 0>>}

\* struct.unpack('<I', b)[0]
UnpackU32(b) == b[1] + 256 * b[2] + 65536 * b[3] + 16777216 * b[4]

\* an expected value that does not wrap
ExpectedNoWrap(last) == last + 1

\* (self.last_sequence_id + 1) & 0xFF
Expected(last) == (last + 1) % 256

\* a report with the two values exchanged
GapReportSwapped(last, sequence_id) ==
    IF last # NULL /\ sequence_id # Expected(last[1])
    THEN <<[expected |-> sequence_id, actual |-> Expected(last[1])]>>
    ELSE <<>>

\* the sequence check: what is printed for a frame with this sequence byte
GapReport(last, sequence_id) ==
    IF last # NULL /\ sequence_id # Expected(last[1])
    THEN <<[expected |-> Expected(last[1]), actual |-> sequence_id]>>
    ELSE <<>>

InitReceiver ==
    /\ ser = "none"
    /\ last_sequence_id = NULL
    /\ message = NULL
    /\ gap_events = <<>>
    /\ rx_call = NULL
    /\ rx_prev = NULL
    /\ rx_seen = FALSE
    /\ rx_count = 0
    /\ rx_connects = 0
    /\ rx_consecutive = TRUE
    /\ rx_gap_total = 0

\* run() calls connect(): the port opens; a new session of this receiver
RxConnect ==
    /\ ser \in {"none", "closed"}
    /\ rx_connects < MaxConnects
    /\ ser' = "open"
    /\ rx_connects' = rx_connects + 1
    /\ rx_seen' = FALSE
    /\ UNCHANGED <<last_sequence_id, message, gap_events, rx_call, rx_prev, rx_count,
                   rx_consecutive, rx_gap_total,
                   scanVars, protoVars, qVars, rtVars, apiVars, tsVars, cfVars, srvVars, subVars, dbVars, decVars>>

\* connect() returns False: no port found or serial.Serial raises
RxConnectFails ==
    /\ ser \in {"none", "closed"}
    /\ UNCHANGED vars

\* read_message hands data to decode_binary_message
RxDecode(data) ==
    /\ ser = "open"
    /\ rx_count < MaxRxCalls
    /\ rx_count' = rx_count + 1
    /\ IF Len(data) < 6
       THEN /\ message' = NULL
            /\ gap_events' = <<>>
            /\ rx_call' = <<[data |-> data, prev |-> rx_prev, first |-> FALSE]>>
            /\ UNCHANGED <<last_sequence_id, rx_prev, rx_seen, rx_consecutive,
                           rx_gap_total>>
       ELSE LET msg_type == data[1]
                sequence_id == data[2]
                timestamp == UnpackU32(SubSeq(data, 3, 6))
                report == GapReport(last_sequence_id, sequence_id)
            IN  /\ gap_events' = report
                /\ last_sequence_id' = <<sequence_id>>
                /\ message' = <<[type |-> msg_type, sequence |-> sequence_id,
                                 timestamp |-> timestamp]>>
                /\ rx_call' = <<[data |-> data, prev |-> rx_prev, first |-> ~rx_seen]>>
                /\ rx_prev' = <<sequence_id>>
                /\ rx_seen' = TRUE
                /\ rx_consecutive' =
                       (rx_consecutive
                          /\ (rx_prev = NULL \/ sequence_id = (rx_prev[1] + 1) % 256))
                /\ rx_gap_total' = rx_gap_total + Len(report)
    /\ UNCHANGED <<ser, rx_connects, scanVars, protoVars, qVars, rtVars, apiVars, tsVars, cfVars, srvVars, subVars, dbVars,
                   decVars>>

\* the loop of run() is left: finally closes the port
RxStop ==
    /\ ser = "open"
    /\ ser' = "closed"
    /\ UNCHANGED <<last_sequence_id, message, gap_events, rx_call, rx_prev, rx_seen,
                   rx_count, rx_connects, rx_consecutive, rx_gap_total,
                   scanVars, protoVars, qVars, rtVars, apiVars, tsVars, cfVars, srvVars, subVars, dbVars, decVars>>

(***************************************************************************)
(* SpecProtocol: the header codec of LogSplitterProtocol and the packet    *)
(* codec of TelemetryPacket, bytes as sequences of 0..255.                 *)
(***************************************************************************)
\* the length from_bytes and parse_message test and slice with
HEADER_SIZE == 18
\* the length TelemetryPacket.unpack tests and slices with
PACKET_HEADER_SIZE == 14
\* longest payload encoded
MaxPayload == 2

\* field widths of '<BBHIQ8sH' and of '<BBIQ'
HeaderFormat == <<1, 1, 2, 4, 8, 8, 2>>
PacketFormat == <<1, 1, 4, 8>>

\* struct.calcsize
RECURSIVE CalcSize(_)
CalcSize(fmt) == IF fmt = <<>> THEN 0 ELSE Head(fmt) + CalcSize(Tail(fmt))

\* LogSplitterMessageType values: COMMAND_REQUEST, HEARTBEAT, and all defined
ProtoTypes == {32, 64}
DefinedTypes == (16..23) \cup {32, 33, 34} \cup {48, 49, 50} \cup (64..68) \cup {80, 81, 82}
\* PacketType values
PacketTypes == {1, 4}
DefinedPacketTypes == 1..6

ProtoSequences == {0, 258, 65535}
ProtoTimestamps == {0, 16909060, 2147483647}
\* source ids as ASCII codes: "", "AB", "WIZARD01", and the 9 characters "BASE_NODE"
ProtoSources ==
    {<<>>, <<65, 66>>, <<87, 73, 90, 65, 82, 68, 48, 49>>,
     <<66, 65, 83, 69, 95, 78, 79, 68, 69>>}
ProtoPayloads == UNION {[1..k -> {123, 0}] : k \in 0..MaxPayload}

\* little-endian integers of 2, 4 and 8 bytes (values below 2^31)
U16(v) == <<v % 256, (v \div 256) % 256>>
U32(v) == <<v % 256, (v \div 256) % 256, (v \div 65536) % 256, (v \div 16777216) % 256>>
U64(v) == U32(v) \o <<0, 0, 0, 0>>
FromU16(b) == b[1] + 256 * b[2]
\* the value of 8 bytes, or -1 where it exceeds every length in the model
FromU64(b) == IF SubSeq(b, 4, 8) = <<0, 0, 0, 0, 0>> THEN b[1] + 256 * b[2] + 65536 * b[3]
              ELSE -1

\* bytes.ljust(8, b'\0') of the first 8 bytes
Pad8(s) == [k \in 1..8 |-> IF k <= Len(s) THEN s[k] ELSE 0]

\* bytes.rstrip(b'\0')
RECURSIVE RStrip(_)
RStrip(s) == IF s # <<>> /\ s[Len(s)] = 0 THEN RStrip(SubSeq(s, 1, Len(s) - 1)) ELSE s

\* a decoder's outcome: err is "none" when it returned
Raised(err) ==
    [err |-> err, version |-> 0, message_type |-> 0, sequence |-> 0, timestamp |-> 0,
     source_id |-> <<>>, payload_size |-> 0, payload |-> <<>>]

\* LogSplitterProtocolHeader.to_bytes
ToBytes(h) ==
    <<h.version, h.message_type>> \o U16(h.sequence) \o U32(h.timestamp) \o U64(0)
        \o Pad8(Slice(h.source_id, 0, 8)) \o U16(h.payload_size)

\* struct.unpack('<BBHIQ8sH', buf): the buffer must have exactly the
\* format's size
UnpackHeader(buf) ==
    IF Len(buf) # CalcSize(HeaderFormat) THEN Raised("struct.error")
    ELSE [err |-> "none", version |-> buf[1], message_type |-> buf[2],
          sequence |-> FromU16(SubSeq(buf, 3, 4)),
          timestamp |-> UnpackU32(SubSeq(buf, 5, 8)),
          source_id |-> SubSeq(buf, 17, 24),
          payload_size |-> FromU16(SubSeq(buf, 25, 26)),
          payload |-> <<>>]

\* LogSplitterProtocolHeader.from_bytes
FromBytes(data) ==
    IF Len(data) < HEADER_SIZE THEN Raised("HeaderTooShort")
    ELSE LET u == UnpackHeader(Slice(data, 0, HEADER_SIZE))
         IN  IF u.err # "none" THEN u
             ELSE IF u.message_type \notin DefinedTypes THEN Raised("ValueError")
             ELSE [u EXCEPT !.source_id = RStrip(u.source_id)]

\* LogSplitterProtocol.create_message for a bytes payload
CreateMessage(node_id, sequence_counter, now_ms, message_type, payload_bytes) ==
    ToBytes([version |-> 1, message_type |-> message_type,
             sequence |-> sequence_counter, timestamp |-> now_ms,
             source_id |-> node_id, payload_size |-> Len(payload_bytes)])
        \o payload_bytes

\* LogSplitterProtocol.parse_message
ParseMessage(data) ==
    IF Len(data) < HEADER_SIZE THEN Raised("HeaderTooShort")
    ELSE LET header == FromBytes(Slice(data, 0, HEADER_SIZE))
         IN  IF header.err # "none" THEN header
             ELSE LET payload == Slice(data, HEADER_SIZE, HEADER_SIZE + header.payload_size)
                  IN  IF Len(payload) # header.payload_size
                      THEN Raised("PayloadSizeMismatch")
                      ELSE [header EXCEPT !.payload = payload]

\* TelemetryPacket.pack
Pack(pk) ==
    <<pk.message_type, pk.sequence>> \o U32(pk.timestamp) \o U64(Len(pk.payload))
        \o pk.payload

\* TelemetryPacket.unpack
Unpack(data) ==
    IF Len(data) < PACKET_HEADER_SIZE THEN Raised("HeaderTooShort")
    ELSE LET buf == Slice(data, 0, PACKET_HEADER_SIZE)
         IN  IF Len(buf) # CalcSize(PacketFormat) THEN Raised("struct.error")
             ELSE LET payload_len == FromU64(SubSeq(buf, 7, 14))
                      payload == IF payload_len < 0 THEN SliceFrom(data, PACKET_HEADER_SIZE)
                                 ELSE Slice(data, PACKET_HEADER_SIZE,
                                            PACKET_HEADER_SIZE + payload_len)
                  IN  IF Len(payload) # payload_len THEN Raised("PayloadSizeMismatch")
                      ELSE IF buf[1] \notin DefinedPacketTypes THEN Raised("ValueError")
                      ELSE [err |-> "none", version |-> 0, message_type |-> buf[1],
                            sequence |-> buf[2],
                            timestamp |-> UnpackU32(SubSeq(buf, 3, 6)),
                            source_id |-> <<>>, payload_size |-> payload_len,
                            payload |-> payload]

\* what is handed to the encoders
ProtoInputs ==
    [codec : {"protocol"}, version : {1}, message_type : ProtoTypes,
     sequence : ProtoSequences, timestamp : ProtoTimestamps, source_id : ProtoSources,
     payload_size : {0, 513}, payload : ProtoPayloads]
        \cup
    [codec : {"packet"}, version : {0}, message_type : PacketTypes,
     sequence : {0, 255}, timestamp : ProtoTimestamps, source_id : {<<>>},
     payload_size : {0}, payload : ProtoPayloads]

InitProtoOff ==
    /\ pr_pc = "off"
    /\ pr_input = <<>>
    /\ pr_wire = <<>>
    /\ pr_made_by = "none"
    /\ pr_changed = "none"
    /\ pr_read_by = "none"
    /\ pr_result = <<>>

InitProtocol ==
    /\ pr_pc = "new"
    /\ pr_input \in ProtoInputs
    /\ pr_wire = <<>>
    /\ pr_made_by = "none"
    /\ pr_changed = "none"
    /\ pr_read_by = "none"
    /\ pr_result = <<>>

\* header.to_bytes()
HeaderToBytes ==
    /\ pr_pc = "new"
    /\ pr_input.codec = "protocol"
    /\ pr_wire' = ToBytes(pr_input)
    /\ pr_made_by' = "to_bytes"
    /\ pr_pc' = "encoded"
    /\ UNCHANGED <<pr_input, pr_changed, pr_read_by, pr_result,
                   scanVars, rxVars, qVars, rtVars, apiVars, tsVars, cfVars, srvVars, subVars, dbVars, decVars>>

\* protocol.create_message(message_type, payload)
ProtoCreateMessage ==
    /\ pr_pc = "new"
    /\ pr_input.codec = "protocol"
    /\ pr_wire' = CreateMessage(pr_input.source_id, pr_input.sequence, pr_input.timestamp,
                                pr_input.message_type, pr_input.payload)
    /\ pr_made_by' = "create_message"
    /\ pr_pc' = "encoded"
    /\ UNCHANGED <<pr_input, pr_changed, pr_read_by, pr_result,
                   scanVars, rxVars, qVars, rtVars, apiVars, tsVars, cfVars, srvVars, subVars, dbVars, decVars>>

\* packet.pack()
PacketPack ==
    /\ pr_pc = "new"
    /\ pr_input.codec = "packet"
    /\ pr_wire' = Pack(pr_input)
    /\ pr_made_by' = "pack"
    /\ pr_pc' = "encoded"
    /\ UNCHANGED <<pr_input, pr_changed, pr_read_by, pr_result,
                   scanVars, rxVars, qVars, rtVars, apiVars, tsVars, cfVars, srvVars, subVars, dbVars, decVars>>

\* the transport delivers only the first n bytes
WireCut(n) ==
    /\ pr_pc = "encoded"
    /\ pr_changed = "none"
    /\ n < Len(pr_wire)
    /\ pr_wire' = SubSeq(pr_wire, 1, n)
    /\ pr_changed' = "cut"
    /\ UNCHANGED <<pr_pc, pr_input, pr_made_by, pr_read_by, pr_result,
                   scanVars, rxVars, qVars, rtVars, apiVars, tsVars, cfVars, srvVars, subVars, dbVars, decVars>>

\* the transport delivers the message with a byte of the next one after it
WireExtend(byte) ==
    /\ pr_pc = "encoded"
    /\ pr_changed = "none"
    /\ pr_wire' = Append(pr_wire, byte)
    /\ pr_changed' = "extended"
    /\ UNCHANGED <<pr_pc, pr_input, pr_made_by, pr_read_by, pr_result,
                   scanVars, rxVars, qVars, rtVars, apiVars, tsVars, cfVars, srvVars, subVars, dbVars, decVars>>

\* LogSplitterProtocolHeader.from_bytes(data)
ProtoFromBytes ==
    /\ pr_pc = "encoded"
    /\ pr_input.codec = "protocol"
    /\ pr_result' = FromBytes(pr_wire)
    /\ pr_read_by' = "from_bytes"
    /\ pr_pc' = "decoded"
    /\ UNCHANGED <<pr_input, pr_wire, pr_made_by, pr_changed,
                   scanVars, rxVars, qVars, rtVars, apiVars, tsVars, cfVars, srvVars, subVars, dbVars, decVars>>

\* protocol.parse_message(data)
ProtoParseMessage ==
    /\ pr_pc = "encoded"
    /\ pr_input.codec = "protocol"
    /\ pr_result' = ParseMessage(pr_wire)
    /\ pr_read_by' = "parse_message"
    /\ pr_pc' = "decoded"
    /\ UNCHANGED <<pr_input, pr_wire, pr_made_by, pr_changed,
                   scanVars, rxVars, qVars, rtVars, apiVars, tsVars, cfVars, srvVars, subVars, dbVars, decVars>>

\* TelemetryPacket.unpack(data)
PacketUnpack ==
    /\ pr_pc = "encoded"
    /\ pr_input.codec = "packet"
    /\ pr_result' = Unpack(pr_wire)
    /\ pr_read_by' = "unpack"
    /\ pr_pc' = "decoded"
    /\ UNCHANGED <<pr_input, pr_wire, pr_made_by, pr_changed,
                   scanVars, rxVars, qVars, rtVars, apiVars, tsVars, cfVars, srvVars, subVars, dbVars, decVars>>

(***************************************************************************)
(* SpecQuality: NetworkMonitor.calculate_quality_score.  Scores are kept   *)
(* in quarter points and snr in tenths of a dB, so that (rssi + 120) * 50  *)
(* / 40 and (snr + 10) * 50 / 20 are whole numbers: 4 * rssi_score =       *)
(* (rssi + 120) * 5 and 4 * snr_score = 10 * snr + 100.                    *)
(***************************************************************************)
\* weakest and strongest rssi tried, dBm below zero
MaxRssiBelow == 130
MinRssiBelow == 70
\* snr values tried, tenths of a dB
QualitySnrs == {-150, -101, -100, -99, -50, 0, 37, 99, 100, 101, 150}

\* max(lo, x): a clamp that has lost its upper end
ClampLow(lo, hi, x) == Max(lo, x)

\* max(lo, min(hi, x))
Clamp(lo, hi, x) == Max(lo, Min(hi, x))

CalculateQualityScore(rssi, snr) ==
    LET rssi_score == Clamp(0, 4 * 50, (rssi + 120) * 5)
        snr_score == Clamp(0, 4 * 50, snr + 100)
    IN  [rssi_score |-> rssi_score, snr_score |-> snr_score,
         total |-> rssi_score + snr_score]

InitQualityOff ==
    /\ q_pc = "off"
    /\ q_rssi = 0
    /\ q_snr = 0
    /\ q_score = <<>>

InitQualityNew ==
    /\ q_pc = "new"
    /\ q_rssi \in (0 - MaxRssiBelow)..(0 - MinRssiBelow)
    /\ q_snr \in QualitySnrs
    /\ q_score = <<>>

\* update_node(...) computes the node's quality_score
QualityScore ==
    /\ q_pc = "new"
    /\ q_score' = CalculateQualityScore(q_rssi, q_snr)
    /\ q_pc' = "done"
    /\ UNCHANGED <<q_rssi, q_snr, scanVars, rxVars, protoVars, rtVars, apiVars, tsVars, cfVars, srvVars, subVars, dbVars,
                   decVars>>

(***************************************************************************)
(* SpecRange: MeshtasticRangeTester in continuous mode: main() calls       *)
(* run_test again and again; every call starts a monitor thread.           *)
(***************************************************************************)
\* run_test calls made
MaxCycles == 2
\* probes attempted in one run_test call
MaxProbes == 2
\* receive_time - send_time of a received probe, in ms; NULL: int(parts[1]) raises
RtLatencies == {<<-5>>, <<100>>, <<30001>>, NULL}
\* the largest latency taken into the total
SANE_LATENCY == 30000

\* a mean over every received probe, as a fraction
AverageLatency(total, received) == [num |-> total, den |-> Max(1, received)]

\* calculate_statistics: {} when nothing was sent; packet_loss_percent is
\* loss_num / packets_sent and average_latency_ms is avg.num / avg.den
CalculateStatistics(sent, received, total) ==
    IF sent = 0 THEN [empty |-> TRUE, packets_sent |-> 0, packets_received |-> 0,
                      loss_num |-> 0, avg |-> [num |-> 0, den |-> 1]]
    ELSE [empty |-> FALSE, packets_sent |-> sent, packets_received |-> received,
          loss_num |-> (sent - received) * 100,
          avg |-> AverageLatency(total, received)]

InitRangeOff ==
    /\ rt_pc = "off"
    /\ rt_cycle = 0
    /\ rt_running = FALSE
    /\ packets_sent = 0
    /\ packets_received = 0
    /\ total_latency = 0
    /\ rt_sequence = 0
    /\ rt_air = 0
    /\ rt_monitors = {}
    /\ rt_stats = NULL
    /\ rt_failed = 0
    /\ rt_sane_sum = 0
    /\ rt_sane_count = 0

InitRangeTester ==
    /\ rt_pc = "idle"
    /\ rt_cycle = 0
    /\ rt_running = FALSE
    /\ packets_sent = 0
    /\ packets_received = 0
    /\ total_latency = 0
    /\ rt_sequence = 0
    /\ rt_air = 0
    /\ rt_monitors = {}
    /\ rt_stats = NULL
    /\ rt_failed = 0
    /\ rt_sane_sum = 0
    /\ rt_sane_count = 0

\* run_test up to the loop: running = True, the counters are reset, the
\* monitor thread of this call is started
RunTestStart ==
    /\ rt_pc = "idle"
    /\ rt_cycle < MaxCycles
    /\ rt_cycle' = rt_cycle + 1
    /\ rt_running' = TRUE
    /\ packets_sent' = 0
    /\ packets_received' = 0
    /\ total_latency' = 0
    /\ rt_sequence' = 0
    /\ rt_monitors' = rt_monitors \cup {rt_cycle + 1}
    /\ rt_failed' = 0
    /\ rt_sane_sum' = 0
    /\ rt_sane_count' = 0
    /\ rt_pc' = "sending"
    /\ UNCHANGED <<rt_air, rt_stats,
                   scanVars, rxVars, protoVars, qVars, apiVars, tsVars, cfVars, srvVars, subVars, dbVars, decVars>>

\* send_test_message: the CLI returns 0
SendOk ==
    /\ rt_pc = "sending"
    /\ rt_sequence < MaxProbes
    /\ packets_sent' = packets_sent + 1
    /\ rt_sequence' = rt_sequence + 1
    /\ rt_air' = rt_air + 1
    /\ UNCHANGED <<rt_pc, rt_cycle, rt_running, packets_received, total_latency,
                   rt_monitors, rt_stats, rt_failed, rt_sane_sum, rt_sane_count,
                   scanVars, rxVars, protoVars, qVars, apiVars, tsVars, cfVars, srvVars, subVars, dbVars, decVars>>

\* send_test_message returns False: non-zero return code, or the CLI call
\* raises (timeout); the loop goes on with the next sequence
SendFails ==
    /\ rt_pc = "sending"
    /\ rt_sequence < MaxProbes
    /\ rt_sequence' = rt_sequence + 1
    /\ rt_failed' = rt_failed + 1
    /\ UNCHANGED <<rt_pc, rt_cycle, rt_running, packets_sent, packets_received,
                   total_latency, rt_air, rt_monitors, rt_stats, rt_sane_sum,
                   rt_sane_count,
                   scanVars, rxVars, protoVars, qVars, apiVars, tsVars, cfVars, srvVars, subVars, dbVars, decVars>>

\* the duration is over or Ctrl-C: finally sets running = False
LoopEnds ==
    /\ rt_pc = "sending"
    /\ rt_running' = FALSE
    /\ rt_pc' = "joining"
    /\ UNCHANGED <<rt_cycle, packets_sent, packets_received, total_latency, rt_sequence,
                   rt_air, rt_monitors, rt_stats, rt_failed, rt_sane_sum, rt_sane_count,
                   scanVars, rxVars, protoVars, qVars, apiVars, tsVars, cfVars, srvVars, subVars, dbVars, decVars>>

\* join(timeout=5) returns, with the monitor thread finished or not;
\* calculate_statistics; back in main()
RunTestEnds ==
    /\ rt_pc = "joining"
    /\ rt_stats' = <<CalculateStatistics(packets_sent, packets_received, total_latency)>>
    /\ rt_pc' = "idle"
    /\ UNCHANGED <<rt_cycle, rt_running, packets_sent, packets_received, total_latency,
                   rt_sequence, rt_air, rt_monitors, rt_failed, rt_sane_sum,
                   rt_sane_count,
                   scanVars, rxVars, protoVars, qVars, apiVars, tsVars, cfVars, srvVars, subVars, dbVars, decVars>>

\* monitor thread m: readline returns a probe line; process_received_message
MonitorReceives(m, latency) ==
    /\ m \in rt_monitors
    /\ rt_air > 0
    /\ rt_air' = rt_air - 1
    /\ packets_received' = packets_received + 1
    /\ LET sane == latency # NULL /\ 0 <= latency[1] /\ latency[1] <= SANE_LATENCY
       IN  /\ total_latency' = IF sane THEN total_latency + latency[1] ELSE total_latency
           /\ rt_sane_sum' = IF sane THEN rt_sane_sum + latency[1] ELSE rt_sane_sum
           /\ rt_sane_count' = IF sane THEN rt_sane_count + 1 ELSE rt_sane_count
    /\ UNCHANGED <<rt_pc, rt_cycle, rt_running, packets_sent, rt_sequence, rt_monitors,
                   rt_stats, rt_failed,
                   scanVars, rxVars, protoVars, qVars, apiVars, tsVars, cfVars, srvVars, subVars, dbVars, decVars>>

\* monitor thread m leaves its loop: running is False or its time is over
MonitorExits(m) ==
    /\ m \in rt_monitors
    /\ ~rt_running \/ m < rt_cycle
    /\ rt_monitors' = rt_monitors \ {m}
    /\ UNCHANGED <<rt_pc, rt_cycle, rt_running, packets_sent, packets_received,
                   total_latency, rt_sequence, rt_air, rt_stats, rt_failed, rt_sane_sum,
                   rt_sane_count,
                   scanVars, rxVars, protoVars, qVars, apiVars, tsVars, cfVars, srvVars, subVars, dbVars, decVars>>

(***************************************************************************)
(* SpecLatest: the decoder thread publishes frames while clients query     *)
(* /api/telemetry/latest.                                                  *)
(***************************************************************************)
\* the largest limit a client asks for
MaxLimit == 4

\* Python's list[-limit:]: a start of -limit counts from the end when it is
\* negative, and from the front when it is zero or positive
LastSlice(list, limit) ==
    LET start == IF -limit < 0 THEN Max(0, Len(list) - limit) ELSE Min(Len(list), -limit)
    IN  SubSeq(list, start + 1, Len(list))

InitApiOff ==
    /\ api_limit = NULL
    /\ api_reply = NULL
    /\ api_ring = <<>>

\* telemetry_latest: the whole handler, the copy of the ring taken under the lock
TelemetryLatest(limit) ==
    /\ telemetry_lock = "free"
    /\ LET reply == LastSlice(latest_messages, limit)
       IN  api_reply' = <<[messages |-> reply, count |-> Len(reply)]>>
    /\ api_limit' = <<limit>>
    /\ api_ring' = latest_messages
    /\ UNCHANGED <<scanVars, rxVars, protoVars, qVars, rtVars, tsVars, cfVars, srvVars, subVars, dbVars, decVars>>

(***************************************************************************)
(* SpecStamp: create_message, send_telemetry and send_command stamp a      *)
(* message with int(time.time() * 1000) and pack it into an 'I' field.     *)
(* The time is kept as six bytes, least significant first: a host without  *)
(* a clock source starts at 1970-01-01, a host with one is near 2^40 ms.   *)
(***************************************************************************)
ClockLowBytes == {0, 255}
ClockByte5 == {0, 1, 161}
ClockByte6 == {0, 1}
MsTimes ==
    {<<b1, b2, b3, b4, b5, b6>> :
        b1 \in ClockLowBytes, b2 \in ClockLowBytes, b3 \in ClockLowBytes,
        b4 \in ClockLowBytes, b5 \in ClockByte5, b6 \in ClockByte6}

\* struct.pack of one 'I' field: four bytes, struct.error beyond 2^32 - 1
PackI(ms) ==
    IF ms[5] = 0 /\ ms[6] = 0 THEN [ok |-> TRUE, field |-> SubSeq(ms, 1, 4)]
    ELSE [ok |-> FALSE, field |-> <<>>]

\* struct.unpack of the field, as a six-byte number again
UnpackI(field) == field \o <<0, 0>>

InitStampOff ==
    /\ ts_pc = "off"
    /\ ts_time = <<>>
    /\ ts_by = "none"
    /\ ts_result = NULL

InitStamp ==
    /\ ts_pc = "ready"
    /\ ts_time \in MsTimes
    /\ ts_by = "none"
    /\ ts_result = NULL

\* LogSplitterProtocol.create_message: header.to_bytes(); a struct.error
\* goes to the caller
StampCreateMessage ==
    /\ ts_pc = "ready"
    /\ ts_pc' = "done"
    /\ ts_by' = "create_message"
    /\ ts_result' = <<[sent |-> PackI(ts_time).ok, field |-> PackI(ts_time).field,
                      outcome |-> IF PackI(ts_time).ok THEN "bytes" ELSE "struct.error"]>>
    /\ UNCHANGED <<ts_time,
                   scanVars, rxVars, protoVars, qVars, rtVars, apiVars, cfVars, srvVars, subVars, dbVars, decVars>>

\* MeshtasticBridge.send_telemetry: packet.pack() runs inside send_packet's
\* try; a struct.error is printed and the send returns False
StampSendTelemetry ==
    /\ ts_pc = "ready"
    /\ ts_pc' = "done"
    /\ ts_by' = "send_telemetry"
    /\ ts_result' = <<[sent |-> PackI(ts_time).ok, field |-> PackI(ts_time).field,
                      outcome |-> IF PackI(ts_time).ok THEN "True" ELSE "False"]>>
    /\ UNCHANGED <<ts_time,
                   scanVars, rxVars, protoVars, qVars, rtVars, apiVars, cfVars, srvVars, subVars, dbVars, decVars>>

\* CommandForwarder.send_command: the same through send_packet; the pending
\* entry is deleted again and the call returns False
StampSendCommand ==
    /\ ts_pc = "ready"
    /\ ts_pc' = "done"
    /\ ts_by' = "send_command"
    /\ ts_result' = <<[sent |-> PackI(ts_time).ok, field |-> PackI(ts_time).field,
                      outcome |-> IF PackI(ts_time).ok THEN "True" ELSE "False"]>>
    /\ UNCHANGED <<ts_time,
                   scanVars, rxVars, protoVars, qVars, rtVars, apiVars, cfVars, srvVars, subVars, dbVars, decVars>>

(***************************************************************************)
(* SpecForwarder: MeshtasticBridge with its CommandForwarder.  Commands    *)
(* and telemetry are sent from the caller's thread, responses arrive on    *)
(* the receiving thread, and the cleanup thread runs                       *)
(* cleanup_expired_commands; pending_commands has no lock.                 *)
(***************************************************************************)
\* sequence ids issued in one run
MaxSends == 2
\* commands issued, the one of the wrapped start included
MaxCommands == 2
\* get_next_sequence counts modulo this
SEQ_MODULUS == 256

Commands == 1..MaxCommands

\* get_next_sequence
GetNextSequence(counter) == (counter + 1) % SEQ_MODULUS

\* pending_commands[seq] = info
DictSet(dict, seq, info) ==
    [s \in (DOMAIN dict) \cup {seq} |-> IF s = seq THEN info ELSE dict[s]]

\* del pending_commands[seq], pending_commands.pop(seq)
DictDel(dict, seq) == [s \in (DOMAIN dict) \ {seq} |-> dict[s]]

\* the command whose entry sits under seq
CommandAt(seq) == pending_commands[seq].command

InitForwarderOff ==
    /\ cf_pc = "off"
    /\ bridge_sequence_counter = 0
    /\ pending_commands = <<>>
    /\ cf_sends = 0
    /\ cf_issued = 0
    /\ cf_air = {}
    /\ cf_left = <<>>
    /\ cf_attrib = {}
    /\ cl_pc = "sleep"
    /\ cl_size = 0
    /\ cl_todo = {}
    /\ cl_now_old = {}
    /\ cl_expired = <<>>
    /\ cl_error = "none"

\* a bridge just started
InitForwarderFresh ==
    /\ bridge_sequence_counter = 0
    /\ pending_commands = <<>>
    /\ cf_issued = 0
    /\ cf_air = {}
    /\ cf_left = [c \in Commands |-> "not_issued"]

\* a bridge whose first send was command 1 (sequence id 1) and that has sent
\* SEQ_MODULUS - 2 telemetry packets since, the command still unanswered
InitForwarderWrapped ==
    /\ bridge_sequence_counter = SEQ_MODULUS - 1
    /\ pending_commands = [s \in {1} |-> [command |-> 1, old |-> FALSE]]
    /\ cf_issued = 1
    /\ cf_air = {[seq |-> 1, command |-> 1]}
    /\ cf_left = [c \in Commands |-> IF c = 1 THEN "pending" ELSE "not_issued"]

InitForwarder ==
    /\ cf_pc = "on"
    /\ InitForwarderFresh \/ InitForwarderWrapped
    /\ cf_sends = 0
    /\ cf_attrib = {}
    /\ cl_pc = "sleep"
    /\ cl_size = 0
    /\ cl_todo = {}
    /\ cl_now_old = {}
    /\ cl_expired = <<>>
    /\ cl_error = "none"

\* send_telemetry: takes the next sequence id; whether the send succeeds
\* changes nothing of the forwarder
SendTelemetry ==
    /\ cf_pc = "on"
    /\ cf_sends < MaxSends
    /\ bridge_sequence_counter' = GetNextSequence(bridge_sequence_counter)
    /\ cf_sends' = cf_sends + 1
    /\ UNCHANGED <<cf_pc, pending_commands, cf_issued, cf_air, cf_left, cf_attrib,
                   cl_pc, cl_size, cl_todo, cl_now_old, cl_expired, cl_error,
                   scanVars, rxVars, protoVars, qVars, rtVars, apiVars, tsVars,
                   srvVars, subVars, dbVars, decVars>>

\* send_command, send_packet returns True
SendCommandOk ==
    /\ cf_pc = "on"
    /\ cf_sends < MaxSends
    /\ cf_issued < MaxCommands
    /\ LET seq_id == GetNextSequence(bridge_sequence_counter)
           command == cf_issued + 1
       IN  /\ bridge_sequence_counter' = seq_id
           /\ pending_commands' =
                  DictSet(pending_commands, seq_id, [command |-> command, old |-> FALSE])
           /\ cf_air' = cf_air \cup {[seq |-> seq_id, command |-> command]}
           /\ cf_left' = [cf_left EXCEPT ![command] = "pending"]
           /\ cf_issued' = command
    /\ cf_sends' = cf_sends + 1
    /\ UNCHANGED <<cf_pc, cf_attrib,
                   cl_pc, cl_size, cl_todo, cl_now_old, cl_expired, cl_error,
                   scanVars, rxVars, protoVars, qVars, rtVars, apiVars, tsVars,
                   srvVars, subVars, dbVars, decVars>>

\* send_command, send_packet returns False: the entry is set, then deleted
SendCommandFails ==
    /\ cf_pc = "on"
    /\ cf_sends < MaxSends
    /\ cf_issued < MaxCommands
    /\ LET seq_id == GetNextSequence(bridge_sequence_counter)
           command == cf_issued + 1
       IN  /\ bridge_sequence_counter' = seq_id
           /\ pending_commands' =
                  DictDel(DictSet(pending_commands, seq_id,
                                  [command |-> command, old |-> FALSE]), seq_id)
           /\ cf_left' = [cf_left EXCEPT ![command] = "failed_send"]
           /\ cf_issued' = command
    /\ cf_sends' = cf_sends + 1
    /\ UNCHANGED <<cf_pc, cf_air, cf_attrib,
                   cl_pc, cl_size, cl_todo, cl_now_old, cl_expired, cl_error,
                   scanVars, rxVars, protoVars, qVars, rtVars, apiVars, tsVars,
                   srvVars, subVars, dbVars, decVars>>

\* handle_response for the response to request r
HandleResponse(r) ==
    /\ cf_pc = "on"
    /\ r \in cf_air
    /\ cf_air' = cf_air \ {r}
    /\ IF r.seq \in DOMAIN pending_commands
       THEN /\ pending_commands' = DictDel(pending_commands, r.seq)
            /\ cf_attrib' = cf_attrib \cup {[answered |-> r.command, named |-> CommandAt(r.seq)]}
            /\ cf_left' = [cf_left EXCEPT ![CommandAt(r.seq)] =
                              IF CommandAt(r.seq) = r.command THEN "response"
                              ELSE "other_response"]
       ELSE UNCHANGED <<pending_commands, cf_attrib, cf_left>>
    /\ UNCHANGED <<cf_pc, bridge_sequence_counter, cf_sends, cf_issued,
                   cl_pc, cl_size, cl_todo, cl_now_old, cl_expired, cl_error,
                   scanVars, rxVars, protoVars, qVars, rtVars, apiVars, tsVars,
                   srvVars, subVars, dbVars, decVars>>

\* time passes: the entry under seq is now older than command_timeout
Age(seq) ==
    /\ cf_pc = "on"
    /\ seq \in DOMAIN pending_commands
    /\ ~pending_commands[seq].old
    /\ pending_commands' = [pending_commands EXCEPT ![seq].old = TRUE]
    /\ UNCHANGED <<cf_pc, bridge_sequence_counter, cf_sends, cf_issued, cf_air, cf_left, cf_attrib,
                   cl_pc, cl_size, cl_todo, cl_now_old, cl_expired, cl_error,
                   scanVars, rxVars, protoVars, qVars, rtVars, apiVars, tsVars,
                   srvVars, subVars, dbVars, decVars>>

\* cleanup_expired_commands begins: now, expired = [], the dict iterator
CleanupStart ==
    /\ cf_pc = "on"
    /\ cl_pc = "sleep"
    /\ cl_pc' = "iterate"
    /\ cl_size' = Cardinality(DOMAIN pending_commands)
    /\ cl_todo' = DOMAIN pending_commands
    /\ cl_now_old' = {CommandAt(s) : s \in {k \in DOMAIN pending_commands :
                                               pending_commands[k].old}}
    /\ cl_expired' = <<>>
    /\ UNCHANGED <<cf_pc, bridge_sequence_counter, pending_commands, cf_sends, cf_issued, cf_air,
                   cf_left, cf_attrib, cl_error,
                   scanVars, rxVars, protoVars, qVars, rtVars, apiVars, tsVars,
                   srvVars, subVars, dbVars, decVars>>

\* the iterator's next() finds the table at another size: RuntimeError,
\* caught by _cleanup_loop
CleanupSizeChanged ==
    /\ cl_pc = "iterate"
    /\ Cardinality(DOMAIN pending_commands) # cl_size
    /\ cl_pc' = "sleep"
    /\ cl_error' = "RuntimeError"
    /\ cl_size' = 0
    /\ cl_todo' = {}
    /\ cl_now_old' = {}
    /\ cl_expired' = <<>>
    /\ UNCHANGED <<cf_pc, bridge_sequence_counter, pending_commands, cf_sends, cf_issued, cf_air,
                   cf_left, cf_attrib,
                   scanVars, rxVars, protoVars, qVars, rtVars, apiVars, tsVars,
                   srvVars, subVars, dbVars, decVars>>

\* one turn of the for loop over pending_commands.items()
CleanupVisit(seq) ==
    /\ cl_pc = "iterate"
    /\ Cardinality(DOMAIN pending_commands) = cl_size
    /\ seq \in cl_todo \cap DOMAIN pending_commands
    /\ cl_todo' = cl_todo \ {seq}
    /\ cl_expired' = IF CommandAt(seq) \in cl_now_old THEN Append(cl_expired, seq)
                     ELSE cl_expired
    /\ UNCHANGED <<cf_pc, bridge_sequence_counter, pending_commands, cf_sends, cf_issued, cf_air,
                   cf_left, cf_attrib, cl_pc, cl_size, cl_now_old, cl_error,
                   scanVars, rxVars, protoVars, qVars, rtVars, apiVars, tsVars,
                   srvVars, subVars, dbVars, decVars>>

\* the for loop ends
CleanupIterated ==
    /\ cl_pc = "iterate"
    /\ Cardinality(DOMAIN pending_commands) = cl_size
    /\ cl_todo \cap DOMAIN pending_commands = {}
    /\ cl_todo' = {}
    /\ IF cl_expired = <<>>
       THEN /\ cl_pc' = "sleep"
            /\ cl_size' = 0
            /\ cl_now_old' = {}
       ELSE /\ cl_pc' = "pop"
            /\ UNCHANGED <<cl_size, cl_now_old>>
    /\ UNCHANGED <<cf_pc, bridge_sequence_counter, pending_commands, cf_sends, cf_issued, cf_air,
                   cf_left, cf_attrib, cl_expired, cl_error,
                   scanVars, rxVars, protoVars, qVars, rtVars, apiVars, tsVars,
                   srvVars, subVars, dbVars, decVars>>

\* pending_commands.pop(seq_id) for the next expired id
CleanupPop ==
    /\ cl_pc = "pop"
    /\ LET seq_id == Head(cl_expired)
           last == Len(cl_expired) = 1
       IN  IF seq_id \in DOMAIN pending_commands
           THEN /\ pending_commands' = DictDel(pending_commands, seq_id)
                /\ cf_left' = [cf_left EXCEPT ![CommandAt(seq_id)] =
                                  IF CommandAt(seq_id) \in cl_now_old THEN "timeout"
                                  ELSE "other_timeout"]
                /\ cl_expired' = Tail(cl_expired)
                /\ cl_pc' = IF last THEN "sleep" ELSE "pop"
                /\ cl_size' = IF last THEN 0 ELSE cl_size
                /\ cl_now_old' = IF last THEN {} ELSE cl_now_old
                /\ UNCHANGED cl_error
           ELSE /\ cl_error' = "KeyError"
                /\ cl_pc' = "sleep"
                /\ cl_size' = 0
                /\ cl_now_old' = {}
                /\ cl_expired' = <<>>
                /\ UNCHANGED <<pending_commands, cf_left>>
    /\ UNCHANGED <<cf_pc, bridge_sequence_counter, cf_sends, cf_issued, cf_air, cf_attrib, cl_todo,
                   scanVars, rxVars, protoVars, qVars, rtVars, apiVars, tsVars,
                   srvVars, subVars, dbVars, decVars>>

InitScanOff ==
    /\ scan_chunk = <<>>
    /\ scan_frames = <<>>
    /\ scan_pc = "off"

\* the parts added below the codecs, at rest
InitOthersOff == InitQualityOff /\ InitRangeOff /\ InitApiOff /\ InitStampOff /\ InitForwarderOff

InitLibOff == InitScanOff /\ InitReceiver /\ InitProtoOff /\ InitOthersOff

InitScanner ==
    /\ scan_chunk \in ScanInputs
    /\ scan_frames = <<>>
    /\ scan_pc = "read"

\* for i in range(len(chunk)): ... log_message(byte, context)
Scan ==
    /\ scan_pc = "read"
    /\ scan_frames' = ScanChunk(scan_chunk)
    /\ scan_pc' = "done"
    /\ UNCHANGED <<scan_chunk, rxVars, protoVars, qVars, rtVars, apiVars, tsVars, cfVars, srvVars, subVars, dbVars, decVars>>

InitScan ==
    /\ InitServer /\ InitSubs /\ InitDatabase /\ InitDecoderOff
    /\ InitScanner /\ InitReceiver /\ InitProtoOff /\ InitOthersOff

NextScan == Scan

SpecScanner == InitScan /\ [][NextScan]_vars

InitRx == InitServer /\ InitSubs /\ InitDatabase /\ InitDecoderOff /\ InitLibOff

NextRx ==
    \/ RxConnect
    \/ RxConnectFails
    \/ \E data \in RxData : RxDecode(data)
    \/ RxStop

SpecReceiver == InitRx /\ [][NextRx]_vars

InitProto ==
    /\ InitServer /\ InitSubs /\ InitDatabase /\ InitDecoderOff
    /\ InitScanOff /\ InitReceiver /\ InitProtocol /\ InitOthersOff

NextProto ==
    \/ HeaderToBytes
    \/ ProtoCreateMessage
    \/ PacketPack
    \/ \E n \in 0..(CalcSize(HeaderFormat) + MaxPayload) : WireCut(n)
    \/ \E byte \in {0} : WireExtend(byte)
    \/ ProtoFromBytes
    \/ ProtoParseMessage
    \/ PacketUnpack

SpecProtocol == InitProto /\ [][NextProto]_vars

InitQuality ==
    /\ InitServer /\ InitSubs /\ InitDatabase /\ InitDecoderOff
    /\ InitScanOff /\ InitReceiver /\ InitProtoOff /\ InitQualityNew /\ InitRangeOff
    /\ InitApiOff /\ InitStampOff /\ InitForwarderOff

NextQuality == QualityScore

SpecQuality == InitQuality /\ [][NextQuality]_vars

InitRange ==
    /\ InitServer /\ InitSubs /\ InitDatabase /\ InitDecoderOff
    /\ InitScanOff /\ InitReceiver /\ InitProtoOff /\ InitQualityOff /\ InitRangeTester
    /\ InitApiOff /\ InitStampOff /\ InitForwarderOff

NextRange ==
    \/ RunTestStart
    \/ SendOk
    \/ SendFails
    \/ LoopEnds
    \/ RunTestEnds
    \/ \E m \in 1..MaxCycles, latency \in RtLatencies : MonitorReceives(m, latency)
    \/ \E m \in 1..MaxCycles : MonitorExits(m)

SpecRange == InitRange /\ [][NextRange]_vars

InitStamps ==
    /\ InitServer /\ InitSubs /\ InitDatabase /\ InitDecoderOff
    /\ InitScanOff /\ InitReceiver /\ InitProtoOff /\ InitQualityOff /\ InitRangeOff
    /\ InitApiOff /\ InitStamp /\ InitForwarderOff

NextStamps ==
    \/ StampCreateMessage
    \/ StampSendTelemetry
    \/ StampSendCommand

SpecStamp == InitStamps /\ [][NextStamps]_vars

InitBridge ==
    /\ InitServer /\ InitSubs /\ InitDatabase /\ InitDecoderOff
    /\ InitScanOff /\ InitReceiver /\ InitProtoOff /\ InitQualityOff /\ InitRangeOff
    /\ InitApiOff /\ InitStampOff /\ InitForwarder

NextBridge ==
    \/ SendTelemetry
    \/ SendCommandOk
    \/ SendCommandFails
    \/ \E r \in cf_air : HandleResponse(r)
    \/ \E seq \in 0..(SEQ_MODULUS - 1) : Age(seq)
    \/ CleanupStart
    \/ CleanupSizeChanged
    \/ \E seq \in 0..(SEQ_MODULUS - 1) : CleanupVisit(seq)
    \/ CleanupIterated
    \/ CleanupPop

SpecForwarder == InitBridge /\ [][NextBridge]_vars

(***************************************************************************)
(* SpecDatabase: the owner of a ProtobufDatabase uses the one session id   *)
(* it was constructed with; a later run opens the file again with the      *)
(* next id.                                                                *)
(***************************************************************************)
\* the session id of the latest run
CurrentSession == Cardinality(DOMAIN db.sessions)

\* a new run: a fresh connection to the file, then start_session
StartSession ==
    /\ db = disk
    /\ CurrentSession + 1 \in SessionIds
    /\ StartSessionOn(CurrentSession + 1)
    /\ UNCHANGED <<srvVars, subVars, decVars, libVars>>

LogMessageInsert(msg_type) ==
    /\ CurrentSession > 0
    /\ LogMessageInsertOn(CurrentSession, msg_type, <<msg_type>>)
    /\ UNCHANGED <<srvVars, subVars, decVars, libVars>>

LogMessageRaises ==
    LogMessageAbort /\ UNCHANGED <<srvVars, subVars, decVars, libVars>>

EndSession ==
    /\ CurrentSession > 0
    /\ EndSessionOn(CurrentSession)
    /\ UNCHANGED <<srvVars, subVars, decVars, libVars>>

CloseAndReopen ==
    /\ db # disk
    /\ ConnectionLost
    /\ UNCHANGED <<srvVars, subVars, decVars, libVars>>

InitDb == InitServer /\ InitSubs /\ InitDatabase /\ InitDecoderOff /\ InitLibOff

NextDb ==
    \/ Tick /\ UNCHANGED <<srvVars, subVars, decVars, libVars>>
    \/ StartSession
    \/ \E ty \in MsgTypes : LogMessageInsert(ty)
    \/ LogMessageUpdate /\ UNCHANGED <<srvVars, subVars, decVars, libVars>>
    \/ LogMessageUpsert /\ UNCHANGED <<srvVars, subVars, decVars, libVars>>
    \/ LogMessageCommit /\ UNCHANGED <<srvVars, subVars, decVars, libVars>>
    \/ LogMessageRaises
    \/ EndSession
    \/ CloseAndReopen

SpecDatabase == InitDb /\ [][NextDb]_vars

(***************************************************************************)
(* SpecDecoder: main() of lcars_protobuf_decoder.py.                       *)
(***************************************************************************)
\* self.session_id of the LCARSProtobufDecoder instance
DecoderSession == CHOOSE sid \in SessionIds : \A other \in SessionIds : sid <= other

InitDecoder ==
    /\ mpc = "created"
    /\ dec_serial = "none"
    /\ dec_pending = <<>>
    /\ exit_by = NULL
    /\ ret = NULL

\* connect(): the port opens and start_session commits the sessions row
ConnectOk ==
    /\ mpc = "created"
    /\ StartSessionOn(DecoderSession)
    /\ dec_serial' = "open"
    /\ mpc' = "loop"
    /\ UNCHANGED <<dec_pending, exit_by, ret, srvVars, subVars, libVars>>

\* connect(): serial.Serial raises; connect returns False, main returns 1
ConnectSerialFails ==
    /\ mpc = "created"
    /\ mpc' = "failed"
    /\ ret' = <<1>>
    /\ UNCHANGED <<dec_serial, dec_pending, exit_by, srvVars, subVars, libVars, dbVars>>

\* connect(): the port opens but start_session raises; connect returns
\* False and main returns 1 without calling close()
ConnectStartSessionFails ==
    /\ mpc = "created"
    /\ dec_serial' = "open"
    /\ mpc' = "failed"
    /\ ret' = <<1>>
    /\ UNCHANGED <<dec_pending, exit_by, srvVars, subVars, libVars, dbVars>>

\* top of the while loop: the duration has elapsed, break
DurationElapsed ==
    /\ mpc = "loop"
    /\ dbpc = "idle"
    /\ dec_pending = <<>>
    /\ mpc' = "ending"
    /\ exit_by' = <<"duration">>
    /\ UNCHANGED <<dec_serial, dec_pending, ret, srvVars, subVars, libVars, dbVars>>

\* read what is waiting and scan the chunk for type markers
DecoderReadChunk ==
    /\ mpc = "loop"
    /\ dbpc = "idle"
    /\ dec_pending = <<>>
    /\ \E chunk \in Chunks(DecoderBytes, MaxChunk) :
          /\ Len(db.raw_messages) + Len(ScanChunk(chunk)) <= MaxMessages
          /\ dec_pending' = ScanChunk(chunk)
    /\ UNCHANGED <<mpc, dec_serial, exit_by, ret, srvVars, subVars, libVars, dbVars>>

\* the body of the for loop: self.database.log_message(session_id, type, context)
DecoderLogMessage ==
    /\ mpc = "loop"
    /\ dec_pending # <<>>
    /\ LogMessageInsertOn(DecoderSession, Head(dec_pending).type,
                          Head(dec_pending).context)
    /\ dec_pending' = Tail(dec_pending)
    /\ UNCHANGED <<mpc, dec_serial, exit_by, ret, srvVars, subVars, libVars>>

\* a loop that goes on reading after a failed read
DecoderReadFailsRetry ==
    /\ mpc = "loop"
    /\ dbpc = "idle"
    /\ dec_pending = <<>>
    /\ exit_by' = <<"transport">>
    /\ UNCHANGED <<mpc, ret, dec_serial, dec_pending, srvVars, subVars, libVars, dbVars>>

\* in_waiting or read raises SerialException: process_stream catches only
\* KeyboardInterrupt, so the exception reaches main(), which returns 1
DecoderReadFails ==
    /\ mpc = "loop"
    /\ dbpc = "idle"
    /\ dec_pending = <<>>
    /\ mpc' = "finally"
    /\ exit_by' = <<"transport">>
    /\ ret' = <<1>>
    /\ UNCHANGED <<dec_serial, dec_pending, srvVars, subVars, libVars, dbVars>>

\* a statement of log_message raises: the exception reaches main()
DecoderDatabaseFails ==
    /\ mpc = "loop"
    /\ LogMessageAbort
    /\ dec_pending' = <<>>
    /\ mpc' = "finally"
    /\ exit_by' = <<"database">>
    /\ ret' = <<1>>
    /\ UNCHANGED <<dec_serial, srvVars, subVars, libVars>>

\* KeyboardInterrupt anywhere inside the try block, log_message included
DecoderInterrupted ==
    /\ mpc = "loop"
    /\ IF dbpc = "idle"
       THEN UNCHANGED dbVars
       ELSE LogMessageAbort
    /\ dec_pending' = <<>>
    /\ mpc' = "ending"
    /\ exit_by' = <<"interrupt">>
    /\ UNCHANGED <<dec_serial, ret, srvVars, subVars, libVars>>

\* after the loop: self.database.end_session(self.session_id), return
DecoderEndSession ==
    /\ mpc = "ending"
    /\ EndSessionOn(DecoderSession)
    /\ mpc' = "finally"
    /\ ret' = <<0>>
    /\ UNCHANGED <<dec_serial, dec_pending, exit_by, srvVars, subVars, libVars>>

\* main()'s finally: print_summary(), then close() of the port and the database
MainFinally ==
    /\ mpc = "finally"
    /\ ConnectionLost
    /\ dec_serial' = IF dec_serial = "open" THEN "closed" ELSE dec_serial
    /\ mpc' = "done"
    /\ UNCHANGED <<dec_pending, exit_by, ret, srvVars, subVars, libVars>>

InitDec == InitServer /\ InitSubs /\ InitDatabase /\ InitDecoder /\ InitLibOff

NextDec ==
    \/ Tick /\ UNCHANGED <<srvVars, subVars, decVars, libVars>>
    \/ ConnectOk
    \/ ConnectSerialFails
    \/ ConnectStartSessionFails
    \/ DurationElapsed
    \/ DecoderReadChunk
    \/ DecoderLogMessage
    \/ LogMessageUpdate /\ UNCHANGED <<srvVars, subVars, decVars, libVars>>
    \/ LogMessageUpsert /\ UNCHANGED <<srvVars, subVars, decVars, libVars>>
    \/ LogMessageCommit /\ UNCHANGED <<srvVars, subVars, decVars, libVars>>
    \/ DecoderReadFails
    \/ DecoderDatabaseFails
    \/ DecoderInterrupted
    \/ DecoderEndSession
    \/ MainFinally

SpecDecoder == InitDec /\ [][NextDec]_vars

(***************************************************************************)
(* Spec: the documentation server.                                         *)
(***************************************************************************)
Init == InitServer /\ InitSubs /\ InitDatabase /\ InitDecoderOff /\ InitLibOff

Next ==
    \/ RunPortUnavailable
    \/ RunInitDatabase
    \/ RunOpenSerial
    \/ RunOpenSerialFails
    \/ ReadChunk
    \/ ReadFails
    \/ LogMessageDb
    \/ LogMessageDbFails
    \/ LogMessagePublish
    \/ \E s \in Subs : Subscribe(s)
    \/ \E s \in Subs : Poll(s)
    \/ \E s \in Subs : Resume(s)
    \/ \E s \in Subs : Disconnect(s)

Spec == Init /\ [][Next]_vars

NextLatest ==
    \/ RunPortUnavailable
    \/ RunInitDatabase
    \/ RunOpenSerial
    \/ RunOpenSerialFails
    \/ ReadChunk
    \/ ReadFails
    \/ LogMessageDb
    \/ LogMessageDbFails
    \/ LogMessagePublish
    \/ \E limit \in 0..MaxLimit : TelemetryLatest(limit)

SpecLatest == Init /\ [][NextLatest]_vars

(***************************************************************************)
(* Properties of the live ring and its stream subscribers.                 *)
(***************************************************************************)
\* frames are numbered in scan order; the n-th published frame has n = its rank
Received(s) == {delivered[s][i].n : i \in 1..Len(delivered[s])}

\* the frames sent to s that were published after it subscribed, in order
IsLive(s, f) == f.n > subscribedAt[s]
Live(s) == SelectSeq(delivered[s], LAMBDA f : IsLive(s, f))

\* the subscriber never came MAXLEN or more frames late to a poll
NeverLagged(s) == maxLag[s] < MAXLEN

\* some poll of the subscriber came more than MAXLEN frames after the previous
Stalled(s) == maxLag[s] > MAXLEN

\* C1: every frame published after a subscriber started is yielded to it, as
\* long as it keeps polling and never lags by MAXLEN or more frames: when a
\* poll of such a subscriber has finished, it has been sent every frame
\* published between its start and that poll.
C1_EveryFrameDelivered ==
    \A s \in Subs :
        (spc[s] = "sleep" /\ NeverLagged(s)) =>
            \A n \in (subscribedAt[s] + 1)..polledAt[s] : n \in Received(s)

\* C2: publishing never waits on a subscriber: the decoder is never waiting
\* for telemetry_lock while a generator suspended at its yield holds it.
C2_PublishNeverWaitsOnSubscriber ==
    ~(tpc = "lock" /\ \E s \in Subs : spc[s] = "yield" /\ telemetry_lock = s)

\* C5: a frame whose database write failed is still published to the ring:
\* once log_message is over, the ring has taken that frame.
C5_DbFailureStillPublishes ==
    tpc \in {"loop", "stopped"} =>
        \A f \in db_failed : total_messages >= f.n

\* C8: two subscribers that started at the same point and never fell behind
\* by more than the ring capacity see
\* the same frames in the same order: of the frames published since they
\* started, what one has been sent is a prefix of what the other has been sent.
C8_SameSequences ==
    \A s \in Subs : \A t \in Subs :
        (/\ spc[s] # "off" /\ spc[t] # "off"
         /\ subscribedAt[s] = subscribedAt[t]
         /\ ~Stalled(s) /\ ~Stalled(t))
        => (IsPrefix(Live(s), Live(t)) \/ IsPrefix(Live(t), Live(s)))

\* C9: a subscriber that stalled for more than MAXLEN frames goes on receiving
\* the most recent frames: when one of its later polls has finished, it has
\* been sent the newest frame published by then.
C9_StalledKeepsReceiving ==
    \A s \in Subs :
        (spc[s] = "sleep" /\ Stalled(s)) => polledAt[s] \in Received(s)

\* C10 as stated: a subscriber is never sent a frame published before it
\* subscribed.
C10_NoBacklog ==
    \A s \in Subs : \A n \in Received(s) : n > subscribedAt[s]

\* C10 as amended: the cursor starts at index 0, so the first poll that finds
\* frames sends the whole ring as it is at that poll, oldest first: at most
\* MAXLEN frames, whenever they were published.
C10_FirstPollSendsRing ==
    \A s \in Subs :
        polls[s] = 1 =>
            /\ Len(delivered[s]) <= MAXLEN
            /\ spc[s] = "yield" =>
                   /\ messages[s] = latest_messages
                   /\ delivered[s] = SubSeq(messages[s], 1, pos[s])
            /\ spc[s] = "sleep" => Len(delivered[s]) = last_seen_index[s]

C10_Witness ==
    \E s \in Subs :
        /\ polls[s] = 1
        /\ spc[s] = "sleep"
        /\ subscribedAt[s] > 0
        /\ delivered[s][1].n <= subscribedAt[s]

(***************************************************************************)
(* Properties of ProtobufDatabase.                                         *)
(***************************************************************************)
\* the counters of a session agree with its stored rows
CountsMatch(d, session_id) ==
    /\ d.sessions[session_id].message_count = RawCount(d, session_id)
    /\ \A type_name \in TypeNames :
           StatCount(d, session_id, type_name)
               = RawCountOfType(d, session_id, type_name)

\* no log_message call on the session is in progress
AtRest(session_id) == dbpc = "idle" \/ call.session_id # session_id

\* C3: after any sequence of log_message calls that returned on a started
\* session, message_count equals the number of the session's raw_messages
\* rows and each statistics count equals the number of its rows of that type
\* name.
C3_CountsMatchRows ==
    \A sid \in DOMAIN db.sessions :
        (AtRest(sid) /\ sid \notin aborted) => CountsMatch(db, sid)

C3_Witness ==
    \E sid \in DOMAIN db.sessions :
        /\ AtRest(sid)
        /\ sid \notin aborted
        /\ db.sessions[sid].message_count = 3
        /\ StatCount(db, sid, "Pressure") = 3
        /\ RawCountOfType(db, sid, "Pressure") = 3

\* C4: the three effects of a log_message call become durable together or
\* not at all: in the committed tables every session's counters agree with
\* its committed rows, whatever calls failed or connections were lost.
C4_DurableAllOrNothing ==
    \A sid \in DOMAIN disk.sessions : CountsMatch(disk, sid)

\* C7: end_session is idempotent: once a session's end_time is set, no later
\* call changes it.
C7_EndSessionIdempotent ==
    [][\A sid \in DOMAIN db.sessions :
          db.sessions[sid].end_time # NULL
              => db'.sessions[sid].end_time = db.sessions[sid].end_time]_vars

(***************************************************************************)
(* Properties of the command-line decoder.                                 *)
(***************************************************************************)
\* C6: whenever the receiver loop exits (duration, interrupt, or a transport
\* read failure raised out of the loop) the session that was open is closed:
\* when main() is done, the session's end_time is set.
C6_SessionClosedOnExit ==
    (mpc = "done" /\ DecoderSession \in DOMAIN disk.sessions)
        => disk.sessions[DecoderSession].end_time # NULL

\* the same for TelemetryDecoder.run: when the thread has stopped, the
\* session row it created has its end_time set
ServerSessionClosedOnExit ==
    (tpc = "stopped" /\ ServerSession \in DOMAIN srv_session)
        => srv_session[ServerSession].end_time # NULL

(***************************************************************************)
(* Properties of the marker scan.                                          *)
(***************************************************************************)
\* positions (from 1) of the bytes of c whose value lies in 0x10..0x17
TagPositions(c) == {i \in 1..Len(c) : TAG_LO <= c[i] /\ c[i] <= TAG_HI}

\* the k-th smallest of them
KthTag(c, k) ==
    CHOOSE p \in TagPositions(c) : Cardinality({q \in TagPositions(c) : q < p}) = k - 1

\* C11: the scan of a chunk hands on exactly one frame per byte in
\* 0x10..0x17, in increasing offset order and typed with that byte, and
\* nothing for any other byte.
C11_OneFramePerTag ==
    scan_pc = "done" =>
        /\ Len(scan_frames) = Cardinality(TagPositions(scan_chunk))
        /\ \A k \in 1..Len(scan_frames) :
               scan_frames[k].type = scan_chunk[KthTag(scan_chunk, k)]

\* a scanned chunk with both ends of the range and a byte just outside it
C11_Witness ==
    /\ scan_pc = "done"
    /\ scan_chunk = <<23, 24, 16>>
    /\ Len(scan_frames) = 2
    /\ scan_frames[1].type = 23
    /\ scan_frames[2].type = 16

\* C12 as stated: the window of the tag at position p holds up to 5 bytes
\* before the tag and up to 15 bytes after it, clipped to the chunk.
C12_FifteenAfter ==
    scan_pc = "done" =>
        \A k \in 1..Len(scan_frames) :
            LET p == KthTag(scan_chunk, k)
            IN  scan_frames[k].context =
                    SubSeq(scan_chunk, Max(1, p - 5), Min(Len(scan_chunk), p + 15))

\* C12 amended: the window holds up to 5 bytes before the tag, the tag, and
\* up to 14 bytes after it, clipped to the chunk: at most 20 bytes, the tag
\* among them.
C12_FourteenAfter ==
    scan_pc = "done" =>
        \A k \in 1..Len(scan_frames) :
            LET p == KthTag(scan_chunk, k)
                lo == Max(1, p - 5)
                window == scan_frames[k].context
            IN  /\ window = SubSeq(scan_chunk, lo, Min(Len(scan_chunk), p + 14))
                /\ Len(window) <= 20
                /\ window[p - lo + 1] = scan_chunk[p]

\* a tag with more than 5 bytes before it and more than 14 after it
C12_Witness ==
    /\ scan_pc = "done"
    /\ Len(scan_frames) = 1
    /\ KthTag(scan_chunk, 1) > 6
    /\ Len(scan_chunk) > KthTag(scan_chunk, 1) + 14
    /\ Len(scan_frames[1].context) = 20

(***************************************************************************)
(* Properties of the receiver's sequence check.                            *)
(***************************************************************************)
\* the latest call decoded a frame (6 bytes or more) that had a predecessor
FollowsFrame == rx_call # NULL /\ Len(rx_call[1].data) >= 6 /\ rx_call[1].prev # NULL

\* C13: when a frame's sequence byte s differs from (p + 1) mod 256, p being
\* the previous frame's, exactly one gap is reported, with expected =
\* (p + 1) mod 256 and actual = s; the frame is still returned, and the
\* tracker's previous value becomes s.
C13_OneGapReported ==
    FollowsFrame =>
        LET s == rx_call[1].data[2]
            p == rx_call[1].prev[1]
        IN  s # (p + 1) % 256 =>
                /\ gap_events = <<[expected |-> (p + 1) % 256, actual |-> s]>>
                /\ message # NULL
                /\ message[1].sequence = s
                /\ last_sequence_id = <<s>>

\* 5 then 7: expected 6, actual 7
C13_Witness ==
    /\ FollowsFrame
    /\ rx_call[1].prev = <<5>>
    /\ rx_call[1].data[2] = 7
    /\ gap_events = <<[expected |-> 6, actual |-> 7]>>
    /\ message # NULL

\* C14: as long as every decoded frame's sequence byte follows its
\* predecessor's modulo 256, the wrap from 255 to 0 included, no gap is
\* reported.
C14_ConsecutiveNoGap ==
    rx_consecutive => rx_gap_total = 0

\* three consecutive frames across the wrap: 255, 0, 1
C14_Witness ==
    /\ rx_consecutive
    /\ rx_count = 3
    /\ FollowsFrame
    /\ rx_call[1].prev = <<0>>
    /\ last_sequence_id = <<1>>
    /\ rx_gap_total = 0

\* C15: the first frame decoded after a connect(), also a connect() made
\* again on the same receiver, is not checked against an earlier frame: no
\* gap is reported for it.
C15_FirstFrameNoGap ==
    (rx_call # NULL /\ rx_call[1].first) => gap_events = <<>>

(***************************************************************************)
(* Properties of the header and packet codecs.                             *)
(***************************************************************************)
\* the decoder was given exactly the bytes the encoder made
Unchanged == pr_pc = "decoded" /\ pr_changed = "none"

\* C16: for a header with a defined type, a 16-bit sequence, a 32-bit
\* timestamp and a source id of at most 8 bytes, from_bytes(to_bytes(h))
\* returns the same version, type, sequence, timestamp and source id, and
\* parse_message(create_message(t, p)) returns that header with payload p.
C16_RoundTrip ==
    (Unchanged /\ pr_input.codec = "protocol" /\ Len(pr_input.source_id) <= 8) =>
        /\ (pr_made_by = "to_bytes" /\ pr_read_by = "from_bytes") =>
               /\ pr_result.err = "none"
               /\ pr_result.version = pr_input.version
               /\ pr_result.message_type = pr_input.message_type
               /\ pr_result.sequence = pr_input.sequence
               /\ pr_result.timestamp = pr_input.timestamp
               /\ pr_result.source_id = pr_input.source_id
        /\ (pr_made_by = "create_message" /\ pr_read_by = "parse_message") =>
               /\ pr_result.err = "none"
               /\ pr_result.message_type = pr_input.message_type
               /\ pr_result.sequence = pr_input.sequence
               /\ pr_result.timestamp = pr_input.timestamp
               /\ pr_result.source_id = pr_input.source_id
               /\ pr_result.payload = pr_input.payload

\* bytes the encoder puts before the payload
EncodedHeaderSize ==
    IF pr_input.codec = "protocol" THEN CalcSize(HeaderFormat) ELSE CalcSize(PacketFormat)

\* the payload length written in the header on the wire
DeclaredSize ==
    IF pr_input.codec = "protocol" THEN FromU16(SubSeq(pr_wire, 25, 26))
    ELSE FromU64(SubSeq(pr_wire, 7, 14))

\* C17: parse_message and TelemetryPacket.unpack fail with the payload size
\* mismatch error whenever the declared payload length differs from the
\* number of bytes present after the header, also when it is smaller.
C17_MismatchDetected ==
    (/\ pr_pc = "decoded"
     /\ pr_read_by \in {"parse_message", "unpack"}
     /\ Len(pr_wire) >= EncodedHeaderSize
     /\ DeclaredSize # Len(pr_wire) - EncodedHeaderSize)
        => pr_result.err = "PayloadSizeMismatch"

\* C18: decoding fewer bytes than the encoder emits for a header fails with
\* the header-too-short error and in no other way.
C18_ShortHeaderRejected ==
    (/\ pr_pc = "decoded"
     /\ pr_read_by \in {"from_bytes", "parse_message"}
     /\ Len(pr_wire) < CalcSize(HeaderFormat))
        => pr_result.err = "HeaderTooShort"

(***************************************************************************)
(* Ordering and transport failure.                                         *)
(***************************************************************************)
\* C19: the raw_messages rows of the session, in id order, and the frames of
\* the live ring, oldest first, are in the order the scanner emitted them:
\* row i is the i-th frame scanned, and the ring holds the latest published
\* frames in scan order.
C19_ScanOrderKept ==
    /\ \A i \in 1..Len(srv_raw) : srv_raw[i].n = i
    /\ \A i \in 1..Len(latest_messages) :
           latest_messages[i].n = total_messages - Len(latest_messages) + i

\* more frames logged than the ring holds, so the ring has rotated
C19_Witness ==
    /\ Len(srv_raw) > MAXLEN
    /\ total_messages > MAXLEN
    /\ Len(latest_messages) = MAXLEN
    /\ latest_messages[MAXLEN].n = Len(srv_raw)

\* C20: after a transport read has failed inside the loop, the loop is over
\* and stays over (no further read, no reopening), the failure is reported
\* to the caller (main() returns 1), and once main() is done the port is
\* closed.
C20_ReadFailureEndsLoop ==
    exit_by = <<"transport">> =>
        /\ mpc \in {"finally", "done"}
        /\ ret = <<1>>
        /\ dec_pending = <<>>
        /\ dec_serial \in {"open", "closed"}
        /\ mpc = "done" => dec_serial = "closed"

\* a read failed after frames had been logged, and main() has finished
C20_Witness ==
    /\ exit_by = <<"transport">>
    /\ mpc = "done"
    /\ dec_serial = "closed"
    /\ DecoderSession \in DOMAIN disk.sessions
    /\ disk.sessions[DecoderSession].message_count > 0

\* the same for TelemetryDecoder.run: once the thread has stopped, the port
\* is not open, nothing is left to log and connected is False
ServerStoppedReleasesPort ==
    tpc = "stopped" => (serial_conn # "open" /\ pending = <<>> /\ ~connected)

(***************************************************************************)
(* Sessions and the transport.                                             *)
(***************************************************************************)
\* C21: a session row exists only for a transport that was opened: when the
\* open of the port has failed (the thread has stopped without ever holding
\* a port) no session row has been created.
C21_NoSessionWhenOpenFails ==
    (tpc = "stopped" /\ serial_conn = "none") => srv_session = <<>>

\* the other half, for connect() of the command-line decoder: a connect that
\* failed leaves no port open
FailedConnectLeavesNoHandle ==
    mpc = "failed" => dec_serial # "open"

(***************************************************************************)
(* Properties of the link quality score.                                   *)
(***************************************************************************)
\* C22: the score lies within 0..100 and is the sum of a signal-strength
\* part and an SNR part, each within 0..50; it is 100 whenever rssi >= -80
\* and snr >= +10 dB, and 0 whenever rssi <= -120 and snr <= -10 dB.
C22_ScoreBounded ==
    q_pc = "done" =>
        /\ q_score.total = q_score.rssi_score + q_score.snr_score
        /\ q_score.rssi_score \in 0..(4 * 50)
        /\ q_score.snr_score \in 0..(4 * 50)
        /\ q_score.total \in 0..(4 * 100)
        /\ (q_rssi >= -80 /\ q_snr >= 100) => q_score.total = 4 * 100
        /\ (q_rssi <= -120 /\ q_snr <= -100) => q_score.total = 0

\* a score saturated at 100 by inputs beyond both ranges
C22_Witness ==
    /\ q_pc = "done"
    /\ q_rssi > -80
    /\ q_snr > 100
    /\ q_score.total = 4 * 100

\* C23: a probe whose send failed is a failed sample of the loss statistics:
\* when run_test returns, the statistics exist and the packets they count as
\* lost (sent minus received) are at least the failed sends of that run.
C23_FailedSendCounted ==
    (rt_pc = "idle" /\ rt_stats # NULL /\ rt_failed > 0) =>
        /\ ~rt_stats[1].empty
        /\ rt_stats[1].packets_sent - rt_stats[1].packets_received >= rt_failed

\* the loop goes on after a failed send: the next probe is still attempted
FailedSendLoopContinues ==
    (rt_pc = "sending" /\ rt_failed > 0 /\ rt_sequence < MaxProbes) => ENABLED SendOk

\* C25: the reported average latency is the mean of exactly the latencies
\* that passed the sanity check, whenever one did.
C25_AverageOfSaneSamples ==
    (rt_pc = "joining" /\ packets_sent > 0 /\ rt_sane_count > 0) =>
        LET stats == CalculateStatistics(packets_sent, packets_received, total_latency)
        IN  stats.avg.num * rt_sane_count = rt_sane_sum * stats.avg.den

\* C30: packets_received never exceeds packets_sent, and a reported
\* packet loss lies within 0..100 percent.
C30_ReceivedAtMostSent ==
    /\ rt_pc # "off" => packets_received <= packets_sent
    /\ (rt_stats # NULL /\ ~rt_stats[1].empty) =>
           /\ 0 <= rt_stats[1].loss_num
           /\ rt_stats[1].loss_num <= 100 * rt_stats[1].packets_sent

\* the most recent n frames of a ring, in arrival order
MostRecent(ring, n) == SubSeq(ring, Len(ring) - Min(n, Len(ring)) + 1, Len(ring))

\* C24: a latest query with a limit >= 0 returns at most limit frames, the
\* most recent ones of the ring in arrival order, and count is their number.
C24_AtMostLimit ==
    (api_reply # NULL /\ api_limit[1] >= 0) =>
        /\ Len(api_reply[1].messages) <= api_limit[1]
        /\ api_reply[1].messages = MostRecent(api_ring, api_limit[1])
        /\ api_reply[1].count = Len(api_reply[1].messages)

\* the same for limits of 1 and more
LatestPositiveLimit ==
    (api_reply # NULL /\ api_limit[1] >= 1) =>
        /\ Len(api_reply[1].messages) <= api_limit[1]
        /\ api_reply[1].messages = MostRecent(api_ring, api_limit[1])
        /\ api_reply[1].count = Len(api_reply[1].messages)

\* C26: the millisecond timestamp fits the 32-bit field: packing never
\* fails, and the field decodes to the time that was assigned.
C26_TimestampFits ==
    ts_pc = "done" =>
        /\ ts_result[1].sent
        /\ UnpackI(ts_result[1].field) = ts_time

\* C27: a pending command leaves the table only through its own response,
\* its own timeout or its own failed send, and a callback names the command
\* that the response answers.
C27_OnlyOwnRemoval ==
    cf_pc = "on" =>
        /\ \A c \in Commands :
              /\ cf_left[c] = "pending" =>
                     \E s \in DOMAIN pending_commands : pending_commands[s].command = c
              /\ cf_left[c] \notin {"other_response", "other_timeout"}
        /\ \A a \in cf_attrib : a.answered = a.named

\* C28: the cleanup never raises: the table does not change size under its
\* iteration, and it pops no sequence id that is already gone.
C28_CleanupNeverRaises ==
    cl_error = "none"

\* C29: the frames yielded to one subscriber are in strictly increasing
\* arrival order, so none is yielded to it twice.
C29_StrictlyIncreasing ==
    \A s \in Subs :
        \A i, j \in 1..Len(delivered[s]) : i < j => delivered[s][i].n < delivered[s][j].n

\* a subscriber has been sent frames in two polls, the ring having rotated
\* in between
C29_Witness ==
    \E s \in Subs :
        /\ Len(delivered[s]) >= 2
        /\ polls[s] = 2
        /\ total_messages > MAXLEN
        /\ delivered[s][Len(delivered[s])].n > MAXLEN

====
